---- MODULE Spec2Model ----
(***************************************************************************)
(* Trip generation job pipeline of the Alpaca backend.                     *)
(*                                                                         *)
(* The model covers the job store (TripGenerationJobService), the dispatch *)
(* task of a job (process_trip_generation_job_with_timeout wrapping        *)
(* process_trip_generation_job in asyncio.wait_for) and the cleanup        *)
(* sweeper.  Every await of the dispatch task is one position of pc; the   *)
(* hard timeout of wait_for may cancel the inner coroutine at any await,   *)
(* also at an await whose store call has already taken effect but whose    *)
(* coroutine has not been resumed yet (position "ret").  A store call that  *)
(* is cancelled at its await either has taken effect or never does.        *)
(*                                                                         *)
(* Store calls are assumed to succeed (no driver errors); the wall clock   *)
(* is sampled every TickSeconds seconds and steps of tasks take arbitrary  *)
(* time.  A job document keeps the fields the pipeline reads or reports;   *)
(* user_id and trip_data (never written after creation) and the write-only *)
(* stamps completed_at and updated_at are left out.                        *)
(*                                                                         *)
(* Three specifications share the variables.  Spec (and FairSpec) follow   *)
(* the dispatch tasks of two jobs with the workflow of an attempt as one   *)
(* step.  StoreSpec applies the store queries and the cleanup to           *)
(* collections that no task is writing.  WorkflowSpec follows one job      *)
(* with generate_trip and the fan-out of generate_packing_lists step by    *)
(* step, together with the trips collection and the metrics calls.         *)
(***************************************************************************)
EXTENDS Integers, Naturals, Sequences, FiniteSets, TLC

\* ---------------------------------------------------------------- bounds
\* job ids in the order create_job hands them out (str(ObjectId()): opaque
\* and unique)
JobOrder == <<"j1", "j2">>
JobIds == {JobOrder[i] : i \in 1..Len(JobOrder)}
\* traveler ids of the largest trip, in the order of trip_data.travelers
TravelerOrder == <<"tA", "tB", "tC">>
\* the clock advances in steps of TickSeconds, at most MaxTicks times
TickSeconds == 4000
MaxTicks == 1
\* the history counter of started dispatch tasks saturates at MaxAttempts
MaxAttempts == 4
\* store populations: up to MaxStuck stuck documents and up to MaxPerKind
\* documents of every other kind
MaxStuck == 101
MaxPerKind == 2

\* ------------------------------------------------------------- constants
job_max_age_hours == 1
SecondsPerHour == 3600
\* default of TripGenerationJob.max_retries
max_retries_default == 2
\* default of Settings.job_max_retries
job_max_retries_default == 2
trip_generation_timeout_seconds == 180
\* cursor.to_list(length=100) of get_stuck_jobs
stuck_jobs_list_length == 100

\* None of a string-valued field / of a timestamp or id field
Null == "null"
NoTime == 0 - 1
NoJob == [status |-> "absent"]

Statuses == {"pending", "processing", "completed", "failed"}
ErrorTypes == {"timeout", "validation", "api_error", "transient", "unknown"}

\* keyword classes an exception message may contain (a message is modelled
\* by the set of keyword classes that occur in its lower-cased text)
TransientKw == "transient_kw"
ApiKw == "api_kw"
ValidationKw == "validation_kw"
KeywordClasses == {TransientKw, ApiKw, ValidationKw}
Messages == SUBSET KeywordClasses

VARIABLES
    jobs,       \* the trip_generation_jobs collection: job id -> document
    pc,         \* position of the dispatch task of each job id
    err,        \* the exception caught by the running attempt (local err)
    now,        \* wall clock (datetime.utcnow()), seconds
    attempts,   \* history: number of dispatch tasks started per job id
    attempt_rc, \* history: retry_count of the record when the attempt started
    timedout,   \* history: the running attempt was cut by the hard timeout
    backoff_seconds, \* the delay of the backoff sleep a task is in (local)
    wf,         \* the generate_trip run of the current attempt of each job id
    trips,      \* the trips collection
    reply,      \* what the last store query returned
    live,       \* number of dispatch tasks of each job id created and not ended
    warning,    \* the slow-job warning task of the last attempt of each job id
    settings,   \* the configuration (config.settings), read at start
    sweeper,    \* the application lifespan and its cleanup_old_jobs_task
    cache       \* the WeatherCache of the weather service

vars == <<jobs, pc, err, now, attempts, attempt_rc, timedout, backoff_seconds,
          wf, trips, reply, live, warning, settings, sweeper, cache>>

\* ---------------------------------------------------------- job documents
\* a job document created already marked processing
NewJob_processing(t) ==
    [status |-> "processing",
     trip_id |-> NoTime,
     error_message |-> Null,
     error_type |-> Null,
     retry_count |-> 0,
     max_retries |-> max_retries_default,
     started_at |-> t,
     created_at |-> t]

\* TripGenerationJob(user_id=..., trip_data=...) with the field defaults
NewJob(t) ==
    [status |-> "pending",
     trip_id |-> NoTime,
     error_message |-> Null,
     error_type |-> Null,
     retry_count |-> 0,
     max_retries |-> max_retries_default,
     started_at |-> NoTime,
     created_at |-> t]

Exists(j) == jobs[j] # NoJob

\* update_one with upsert: a job id with no document gets one
_update_job_upsert(store, j, updates, t) ==
    LET doc == IF store[j] = NoJob THEN NewJob(t) ELSE store[j]
    IN [store EXCEPT ![j] =
            [f \in DOMAIN doc |->
                IF f \in DOMAIN updates THEN updates[f] ELSE doc[f]]]

\* _update_job: update_one({"id": job_id}, {"$set": updates}); a job id with
\* no document matches nothing (no upsert)
_update_job(store, j, updates, t) ==
    IF store[j] = NoJob THEN store
    ELSE [store EXCEPT ![j] =
            [f \in DOMAIN store[j] |->
                IF f \in DOMAIN updates THEN updates[f]
                ELSE store[j][f]]]

\* mark_processing without the start time
mark_processing_no_start(store, j, t) ==
    _update_job(store, j, [status |-> "processing"], t)

mark_processing(store, j, t) ==
    _update_job(store, j, [status |-> "processing", started_at |-> t], t)

\* mark_completed matching on the status (update_many on processing jobs)
mark_completed_any_job(store, j, trip, t) ==
    [k \in DOMAIN store |->
        IF store[k] # NoJob /\ store[k].status = "processing"
        THEN [store[k] EXCEPT !.status = "completed", !.trip_id = trip]
        ELSE store[k]]

mark_completed(store, j, trip, t) ==
    _update_job(store, j,
        [status |-> "completed", trip_id |-> trip], t)

\* mark_failed writing a status outside the Literal of the model
mark_failed_bad_status(store, j, msg, etype, t) ==
    _update_job(store, j,
        [status |-> "error", error_message |-> msg, error_type |-> etype], t)

\* mark_failed dropping the error_type it is given (the parameter default)
mark_failed_default_type(store, j, msg, etype, t) ==
    _update_job(store, j,
        [status |-> "failed", error_message |-> msg, error_type |-> "unknown"], t)

mark_failed(store, j, msg, etype, t) ==
    _update_job(store, j,
        [status |-> "failed", error_message |-> msg, error_type |-> etype], t)

\* should_retry comparing with <= instead of <
should_retry_off_by_one(store, j) ==
    IF store[j] = NoJob THEN FALSE
    ELSE IF store[j].error_type = "validation" THEN FALSE
    ELSE store[j].retry_count <= store[j].max_retries

should_retry(store, j) ==
    IF store[j] = NoJob THEN FALSE
    ELSE IF store[j].error_type = "validation" THEN FALSE
    ELSE store[j].retry_count < store[j].max_retries

\* increment_retry leaving the error fields in place
increment_retry_keeps_error(store, j, t) ==
    IF store[j] = NoJob THEN store
    ELSE _update_job(store, j,
            [status |-> "pending",
             retry_count |-> store[j].retry_count + 1,
             started_at |-> NoTime], t)

\* increment_retry writing back the retry_count it read
increment_retry_no_count(store, j, t) ==
    IF store[j] = NoJob THEN store
    ELSE _update_job(store, j,
            [status |-> "pending",
             retry_count |-> store[j].retry_count,
             started_at |-> NoTime,
             error_message |-> Null,
             error_type |-> Null], t)

increment_retry(store, j, t) ==
    IF store[j] = NoJob THEN store
    ELSE _update_job(store, j,
            [status |-> "pending",
             retry_count |-> store[j].retry_count + 1,
             started_at |-> NoTime,
             error_message |-> Null,
             error_type |-> Null], t)

\* cleanup_old_jobs deleting on age alone
cleanup_old_jobs_any_status(store, t) ==
    LET cutoff_time == t - job_max_age_hours * SecondsPerHour
    IN [j \in DOMAIN store |->
          IF /\ store[j] # NoJob
             /\ store[j].created_at < cutoff_time
          THEN NoJob ELSE store[j]]

\* cleanup_old_jobs: delete_many on created_at < cutoff and terminal status
cleanup_old_jobs(store, t) ==
    LET cutoff_time == t - job_max_age_hours * SecondsPerHour
    IN [j \in DOMAIN store |->
          IF /\ store[j] # NoJob
             /\ store[j].created_at < cutoff_time
             /\ store[j].status \in {"completed", "failed"}
          THEN NoJob ELSE store[j]]

\* cursor.to_list(length): the first length documents of the cursor, in the
\* order of the ids
to_list(ids, length) ==
    {j \in ids : Cardinality({k \in ids : k < j}) < length}

\* get_stuck_jobs: find on status == processing and started_at < cutoff (a
\* null started_at matches no $lt), cut by to_list
stuck_query(doc, cutoff_time) ==
    /\ doc.status = "processing"
    /\ doc.started_at # NoTime
    /\ doc.started_at < cutoff_time

get_stuck_jobs(store, t) ==
    LET cutoff_time == t - trip_generation_timeout_seconds
        cursor == {j \in DOMAIN store :
                     /\ store[j] # NoJob
                     /\ stuck_query(store[j], cutoff_time)}
    IN to_list(cursor, stuck_jobs_list_length)

\* get_job_stats: $group by status (at most four groups, below the
\* to_list length of 10), the loop over the groups, then len(get_stuck_jobs)
get_job_stats(store, t) ==
    LET count(st) == Cardinality({j \in DOMAIN store :
                                    store[j] # NoJob /\ store[j].status = st})
    IN [op |-> "get_job_stats",
        pending |-> count("pending"),
        processing |-> count("processing"),
        completed |-> count("completed"),
        failed |-> count("failed"),
        total |-> count("pending") + count("processing")
                    + count("completed") + count("failed"),
        stuck |-> Cardinality(get_stuck_jobs(store, t))]

\* is_healthy = len(stuck_jobs) == 0 and stats.processing < 10
processing_threshold == 10
is_healthy(stuck_jobs_count, processing) ==
    stuck_jobs_count = 0 /\ processing < processing_threshold

\* the backoff computed from the retry_count read before the increment
backoff_delay_stale_count(retry_count) == 2 ^ (retry_count - 1)

\* backoff_seconds = 2 ** job.retry_count
backoff_delay(retry_count) == 2 ^ retry_count

\* _classify_error over the keyword classes of the message
_classify_error(m) ==
    IF TransientKw \in m THEN "transient"
    ELSE IF ApiKw \in m THEN "api_error"
    ELSE IF ValidationKw \in m THEN "validation"
    ELSE "unknown"

\* ----------------------------------------------------------------- state
NoErr == [kind |-> "none", msg |-> Null]

\* no exception in flight in generate_trip
NoExc == [type |-> "none", msg |-> {}, origin |-> "none"]

\* the generate_trip run of an attempt before it starts; trip_data is
\* job.trip_data, fixed when the job is created
IdleRun(trip_data) ==
    [pc |-> "idle",
     trip_data |-> trip_data,
     forecast |-> "none",
     weather_data |-> "unset",
     tasks |-> [i \in 1..Len(trip_data.travelers) |->
                  [st |-> "running", msg |-> {}]],
     llm |-> "none",
     packing_lists |-> <<>>,
     exc |-> NoExc,
     metrics |-> <<>>]

\* a trip of all the travelers with ISO dates
DefaultTripData == [travelers |-> TravelerOrder, iso_dates |-> TRUE]

\* no query answered yet
NoReply == [op |-> "none"]

\* no warning task created yet
NoWarning == [st |-> "none", finished |-> FALSE]

\* config.Settings with the defaults of config.py
DefaultSettings == [job_max_retries |-> job_max_retries_default]

\* the application while it serves requests: lifespan has connected the
\* database and created the sweeper task, which sleeps between iterations
ServingApp ==
    [lifespan |-> "serving", db |-> "connected", task |-> "sleep",
     cancel_requested |-> FALSE, errors |-> 0, raised |-> "none"]

\* WeatherCache() after __init__: _cache in insertion order, _hits, _misses;
\* history: calls of get_forecast, requests sent to the weather API, what the
\* last successful fetch of each key stored, the keys evicted since then
EmptyCache ==
    [entries |-> <<>>, hits |-> 0, misses |-> 0, calls |-> 0, api_calls |-> 0,
     stored |-> <<>>, evicted |-> {}]

\* warning_task.cancel(): a sleeping warning task ends in its except
\* asyncio.CancelledError, a finished one is left as it is
cancel(w) == IF w.st = "armed" THEN [w EXCEPT !.st = "cancelled"] ELSE w

\* asyncio.create_task(process_trip_generation_job_with_timeout(job_id))
create_task(tasks, j) == [tasks EXCEPT ![j] = @ + 1]

\* a re-dispatching task staying alive next to the task it created
task_done_never(tasks, j) == tasks

\* the wrapper coroutine of a dispatch task returns
task_done(tasks, j) == [tasks EXCEPT ![j] = @ - 1]

Init ==
    /\ jobs = [j \in JobIds |-> NoJob]
    /\ pc = [j \in JobIds |-> "none"]
    /\ err = [j \in JobIds |-> NoErr]
    /\ now = 0
    /\ attempts = [j \in JobIds |-> 0]
    /\ attempt_rc = [j \in JobIds |-> 0]
    /\ timedout = [j \in JobIds |-> FALSE]
    /\ backoff_seconds = [j \in JobIds |-> 0]
    /\ wf = [j \in JobIds |-> IdleRun(DefaultTripData)]
    /\ trips = {}
    /\ reply = NoReply
    /\ live = [j \in JobIds |-> 0]
    /\ warning = [j \in JobIds |-> NoWarning]
    /\ settings = DefaultSettings
    /\ sweeper = ServingApp
    /\ cache = EmptyCache

\* ------------------------------------------------------ the HTTP handlers
\* enqueue_trip_generation_job: create_job, then create_task of the wrapper
enqueue_trip_generation_job(j) ==
    /\ pc[j] = "none"
    /\ \A i \in 2..Len(JobOrder) : JobOrder[i] = j => pc[JobOrder[i-1]] # "none"
    /\ jobs' = [jobs EXCEPT ![j] = NewJob(now)]
    /\ pc' = [pc EXCEPT ![j] = "queued"]
    /\ UNCHANGED <<err, now, attempts, attempt_rc, timedout, backoff_seconds>>
    /\ UNCHANGED <<wf, trips, reply>>
    /\ live' = create_task(live, j)
    /\ UNCHANGED <<warning, settings, sweeper, cache>>

\* ------------------------------------------------------ the dispatch task
\* positions at which the inner coroutine is suspended inside wait_for
InnerPcs ==
    {"get_job", "mark_processing", "workflow", "mark_completed",
     "validation_failed", "should_retry", "increment_retry", "get_job_retry",
     "backoff", "mark_failed", "ret"}

\* the created task starts: the wrapper enters wait_for and the inner
\* coroutine runs up to its first await (get_job)
StartTask(j) ==
    /\ pc[j] = "queued"
    /\ pc' = [pc EXCEPT ![j] = "get_job"]
    /\ attempts' = [attempts EXCEPT ![j] = IF @ < MaxAttempts THEN @ + 1 ELSE @]
    /\ attempt_rc' = [attempt_rc EXCEPT ![j] =
                        IF Exists(j) THEN jobs[j].retry_count ELSE 0]
    /\ timedout' = [timedout EXCEPT ![j] = FALSE]
    /\ err' = [err EXCEPT ![j] = NoErr]
    /\ wf' = [wf EXCEPT ![j] = IdleRun(@.trip_data)]
    /\ UNCHANGED <<jobs, now, backoff_seconds>>
    /\ UNCHANGED <<trips, reply>>
    /\ UNCHANGED live
    /\ UNCHANGED <<warning, settings, sweeper, cache>>

\* job = await get_job(job_id); if not job: return
GetJob(j) ==
    /\ pc[j] = "get_job"
    /\ pc' = [pc EXCEPT ![j] = IF Exists(j) THEN "mark_processing" ELSE "ret"]
    /\ UNCHANGED <<jobs, err, now, attempts, attempt_rc, timedout, backoff_seconds>>
    /\ UNCHANGED <<wf, trips, reply>>
    /\ UNCHANGED live
    /\ UNCHANGED <<warning, settings, sweeper, cache>>

MarkProcessing(j) ==
    /\ pc[j] = "mark_processing"
    /\ jobs' = mark_processing(jobs, j, now)
    /\ pc' = [pc EXCEPT ![j] = "workflow"]
    /\ UNCHANGED <<err, now, attempts, attempt_rc, timedout, backoff_seconds>>
    /\ UNCHANGED <<wf, trips, reply>>
    /\ UNCHANGED live
    /\ UNCHANGED <<warning, settings, sweeper, cache>>

\* TripCreate(**job.trip_data) and generate_trip return a trip
WorkflowReturns(j) ==
    /\ pc[j] = "workflow"
    /\ pc' = [pc EXCEPT ![j] = "mark_completed"]
    /\ UNCHANGED <<jobs, err, now, attempts, attempt_rc, timedout, backoff_seconds>>
    /\ UNCHANGED <<wf, trips, reply>>
    /\ UNCHANGED live
    /\ UNCHANGED <<warning, settings, sweeper, cache>>

\* ... or raise ValueError (except ValueError) ...
WorkflowRaisesValueError(j) ==
    /\ pc[j] = "workflow"
    /\ err' = [err EXCEPT ![j] = [kind |-> "ValueError", msg |-> "Validation error"]]
    /\ pc' = [pc EXCEPT ![j] = "validation_failed"]
    /\ UNCHANGED <<jobs, now, attempts, attempt_rc, timedout, backoff_seconds>>
    /\ UNCHANGED <<wf, trips, reply>>
    /\ UNCHANGED live
    /\ UNCHANGED <<warning, settings, sweeper, cache>>

\* ... or raise another Exception (except Exception), classified on the spot
WorkflowRaises(j) ==
    /\ pc[j] = "workflow"
    /\ \E m \in Messages :
         LET error_type == _classify_error(m) IN
         /\ err' = [err EXCEPT ![j] = [kind |-> error_type, msg |-> "error"]]
         /\ pc' = [pc EXCEPT ![j] =
                     IF error_type = "transient" THEN "should_retry"
                     ELSE "mark_failed"]
    /\ UNCHANGED <<jobs, now, attempts, attempt_rc, timedout, backoff_seconds>>
    /\ UNCHANGED <<wf, trips, reply>>
    /\ UNCHANGED live
    /\ UNCHANGED <<warning, settings, sweeper, cache>>

MarkCompleted(j) ==
    /\ pc[j] = "mark_completed"
    /\ jobs' = mark_completed(jobs, j, attempts[j], now)
    /\ pc' = [pc EXCEPT ![j] = "ret"]
    /\ UNCHANGED <<err, now, attempts, attempt_rc, timedout, backoff_seconds>>
    /\ UNCHANGED <<wf, trips, reply>>
    /\ UNCHANGED live
    /\ UNCHANGED <<warning, settings, sweeper, cache>>

\* except ValueError: mark_failed(error_type="validation")
MarkFailedValidation(j) ==
    /\ pc[j] = "validation_failed"
    /\ jobs' = mark_failed(jobs, j, err[j].msg, "validation", now)
    /\ pc' = [pc EXCEPT ![j] = "ret"]
    /\ UNCHANGED <<err, now, attempts, attempt_rc, timedout, backoff_seconds>>
    /\ UNCHANGED <<wf, trips, reply>>
    /\ UNCHANGED live
    /\ UNCHANGED <<warning, settings, sweeper, cache>>

\* except Exception, error_type == "transient": should_retry
ShouldRetry(j) ==
    /\ pc[j] = "should_retry"
    /\ pc' = [pc EXCEPT ![j] =
                IF should_retry(jobs, j) THEN "increment_retry"
                ELSE "mark_failed"]
    /\ UNCHANGED <<jobs, err, now, attempts, attempt_rc, timedout, backoff_seconds>>
    /\ UNCHANGED <<wf, trips, reply>>
    /\ UNCHANGED live
    /\ UNCHANGED <<warning, settings, sweeper, cache>>

IncrementRetry(j) ==
    /\ pc[j] = "increment_retry"
    /\ jobs' = increment_retry(jobs, j, now)
    /\ pc' = [pc EXCEPT ![j] = "get_job_retry"]
    /\ UNCHANGED <<err, now, attempts, attempt_rc, timedout, backoff_seconds>>
    /\ UNCHANGED <<wf, trips, reply>>
    /\ UNCHANGED live
    /\ UNCHANGED <<warning, settings, sweeper, cache>>

\* job = await get_job(job_id); if job: sleep, re-dispatch; return
GetJobRetry(j) ==
    /\ pc[j] = "get_job_retry"
    /\ pc' = [pc EXCEPT ![j] = IF Exists(j) THEN "backoff" ELSE "ret"]
    /\ backoff_seconds' = [backoff_seconds EXCEPT ![j] =
            IF Exists(j) THEN backoff_delay(jobs[j].retry_count) ELSE 0]
    /\ UNCHANGED <<jobs, err, now, attempts, attempt_rc, timedout>>
    /\ UNCHANGED <<wf, trips, reply>>
    /\ UNCHANGED live
    /\ UNCHANGED <<warning, settings, sweeper, cache>>

\* the backoff sleep ends: create_task of a new wrapper, then return
Redispatch(j) ==
    /\ pc[j] = "backoff"
    /\ pc' = [pc EXCEPT ![j] = "queued"]
    /\ backoff_seconds' = [backoff_seconds EXCEPT ![j] = 0]
    /\ UNCHANGED <<jobs, err, now, attempts, attempt_rc, timedout>>
    /\ UNCHANGED <<wf, trips, reply>>
    /\ live' = task_done(create_task(live, j), j)
    /\ UNCHANGED <<warning, settings, sweeper, cache>>

\* mark_failed(error_message=str(err), error_type=error_type)
MarkFailed(j) ==
    /\ pc[j] = "mark_failed"
    /\ jobs' = mark_failed(jobs, j, err[j].msg, err[j].kind, now)
    /\ pc' = [pc EXCEPT ![j] = "ret"]
    /\ UNCHANGED <<err, now, attempts, attempt_rc, timedout, backoff_seconds>>
    /\ UNCHANGED <<wf, trips, reply>>
    /\ UNCHANGED live
    /\ UNCHANGED <<warning, settings, sweeper, cache>>

\* the inner coroutine is resumed after its last await and returns;
\* wait_for returns and the wrapper ends
Return(j) ==
    /\ pc[j] = "ret"
    /\ pc' = [pc EXCEPT ![j] = "done"]
    /\ UNCHANGED <<jobs, err, now, attempts, attempt_rc, timedout, backoff_seconds>>
    /\ UNCHANGED <<wf, trips, reply>>
    /\ live' = task_done(live, j)
    /\ UNCHANGED <<warning, settings, sweeper, cache>>

\* wait_for expires: the inner coroutine is cancelled at its current await
\* and the wrapper enters except asyncio.TimeoutError
Timeout(j) ==
    /\ pc[j] \in InnerPcs
    /\ timedout' = [timedout EXCEPT ![j] = TRUE]
    /\ pc' = [pc EXCEPT ![j] = "t_should_retry"]
    /\ backoff_seconds' = [backoff_seconds EXCEPT ![j] = 0]
    /\ wf' = [wf EXCEPT ![j] = IdleRun(@.trip_data)]
    /\ UNCHANGED <<jobs, err, now, attempts, attempt_rc>>
    /\ UNCHANGED <<trips, reply>>
    /\ UNCHANGED live
    /\ UNCHANGED <<warning, settings, sweeper, cache>>

TimeoutShouldRetry(j) ==
    /\ pc[j] = "t_should_retry"
    /\ pc' = [pc EXCEPT ![j] =
                IF should_retry(jobs, j) THEN "t_increment_retry"
                ELSE "t_mark_failed"]
    /\ UNCHANGED <<jobs, err, now, attempts, attempt_rc, timedout, backoff_seconds>>
    /\ UNCHANGED <<wf, trips, reply>>
    /\ UNCHANGED live
    /\ UNCHANGED <<warning, settings, sweeper, cache>>

TimeoutIncrementRetry(j) ==
    /\ pc[j] = "t_increment_retry"
    /\ jobs' = increment_retry(jobs, j, now)
    /\ pc' = [pc EXCEPT ![j] = "t_get_job"]
    /\ UNCHANGED <<err, now, attempts, attempt_rc, timedout, backoff_seconds>>
    /\ UNCHANGED <<wf, trips, reply>>
    /\ UNCHANGED live
    /\ UNCHANGED <<warning, settings, sweeper, cache>>

TimeoutGetJob(j) ==
    /\ pc[j] = "t_get_job"
    /\ pc' = [pc EXCEPT ![j] = IF Exists(j) THEN "t_backoff" ELSE "done"]
    /\ backoff_seconds' = [backoff_seconds EXCEPT ![j] =
            IF Exists(j) THEN backoff_delay(jobs[j].retry_count) ELSE 0]
    /\ UNCHANGED <<jobs, err, now, attempts, attempt_rc, timedout>>
    /\ UNCHANGED <<wf, trips, reply>>
    /\ live' = IF Exists(j) THEN live ELSE task_done(live, j)
    /\ UNCHANGED <<warning, settings, sweeper, cache>>

TimeoutRedispatch(j) ==
    /\ pc[j] = "t_backoff"
    /\ pc' = [pc EXCEPT ![j] = "queued"]
    /\ backoff_seconds' = [backoff_seconds EXCEPT ![j] = 0]
    /\ UNCHANGED <<jobs, err, now, attempts, attempt_rc, timedout>>
    /\ UNCHANGED <<wf, trips, reply>>
    /\ live' = task_done(create_task(live, j), j)
    /\ UNCHANGED <<warning, settings, sweeper, cache>>

TimeoutMarkFailed(j) ==
    /\ pc[j] = "t_mark_failed"
    /\ jobs' = mark_failed(jobs, j, "Job timed out", "timeout", now)
    /\ pc' = [pc EXCEPT ![j] = "done"]
    /\ UNCHANGED <<err, now, attempts, attempt_rc, timedout, backoff_seconds>>
    /\ UNCHANGED <<wf, trips, reply>>
    /\ live' = task_done(live, j)
    /\ UNCHANGED <<warning, settings, sweeper, cache>>

\* ---------------------------------------------------- the cleanup sweeper
\* one iteration of cleanup_old_jobs_task after its sleep
CleanupOldJobs ==
    /\ jobs' = cleanup_old_jobs(jobs, now)
    /\ jobs' # jobs
    /\ UNCHANGED <<pc, err, now, attempts, attempt_rc, timedout, backoff_seconds>>
    /\ UNCHANGED <<wf, trips, reply>>
    /\ UNCHANGED live
    /\ UNCHANGED <<warning, settings, sweeper, cache>>

\* ------------------------------------------------------------- the clock
Tick ==
    /\ now < MaxTicks * TickSeconds
    /\ now' = now + TickSeconds
    /\ UNCHANGED <<jobs, pc, err, attempts, attempt_rc, timedout, backoff_seconds>>
    /\ UNCHANGED <<wf, trips, reply>>
    /\ UNCHANGED live
    /\ UNCHANGED <<warning, settings, sweeper, cache>>

TaskStep(j) ==
    \/ StartTask(j)
    \/ GetJob(j)
    \/ MarkProcessing(j)
    \/ WorkflowReturns(j)
    \/ WorkflowRaisesValueError(j)
    \/ WorkflowRaises(j)
    \/ MarkCompleted(j)
    \/ MarkFailedValidation(j)
    \/ ShouldRetry(j)
    \/ IncrementRetry(j)
    \/ GetJobRetry(j)
    \/ Redispatch(j)
    \/ MarkFailed(j)
    \/ Return(j)
    \/ Timeout(j)
    \/ TimeoutShouldRetry(j)
    \/ TimeoutIncrementRetry(j)
    \/ TimeoutGetJob(j)
    \/ TimeoutRedispatch(j)
    \/ TimeoutMarkFailed(j)

Next ==
    \/ \E j \in JobIds : enqueue_trip_generation_job(j)
    \/ \E j \in JobIds : TaskStep(j)
    \/ CleanupOldJobs
    \/ Tick

Spec == Init /\ [][Next]_vars

TypeOK ==
    /\ now \in 0..(MaxTicks * TickSeconds)
    /\ \A j \in JobIds : pc[j] \in InnerPcs \cup
          {"none", "queued", "done", "t_should_retry", "t_increment_retry",
           "t_get_job", "t_backoff", "t_mark_failed"}

\* the pipeline with the clock stopped: the sweeper, which removes only
\* records older than job_max_age_hours, never has anything to remove
TaskNext ==
    \/ \E j \in JobIds : enqueue_trip_generation_job(j)
    \/ \E j \in JobIds : TaskStep(j)

\* fair scheduling of the event loop: a dispatch task that can take a step
\* (resume from its await, or be cut by the timeout) eventually does; the
\* workflow of an attempt returns, raises or is cut by the timeout
FairSpec == Init /\ [][TaskNext]_vars /\ \A j \in JobIds : WF_vars(TaskStep(j))

Terminal(j) == Exists(j) /\ jobs[j].status \in {"completed", "failed"}

Status(store, j) == IF store[j] = NoJob THEN "absent" ELSE store[j].status

RetryPcs ==
    {"increment_retry", "get_job_retry", "backoff",
     "t_increment_retry", "t_get_job", "t_backoff"}

\* ------------------------------------------------------------------ C1
\* C1: once a job is completed or failed, a step leaves its record unchanged
\* or removes it
C1_TerminalNeverMutated ==
    [][\A j \in JobIds :
         Terminal(j) => (jobs'[j] = jobs[j] \/ jobs'[j] = NoJob)]_vars

\* ------------------------------------------------------------------ C2
AllowedTransition(j) ==
    LET old == Status(jobs, j)
        new == Status(jobs', j)
    IN \/ old = new
       \/ old = "absent" /\ new = "pending"
       \/ old = "pending" /\ new = "processing"
       \/ old = "processing" /\ new = "completed"
       \/ /\ old = "processing" /\ new = "pending"
          /\ jobs'[j].retry_count = jobs[j].retry_count + 1
       \/ old = "processing" /\ new = "failed"
       \/ old \in {"completed", "failed"} /\ new = "absent"

\* C2: every status change of a record is one of the transitions of the job
\* state machine
C2_OnlyStateMachineTransitions ==
    [][\A j \in JobIds : AllowedTransition(j)]_vars

\* ------------------------------------------------------------------ C3
\* C3: the status of every job record is pending, processing, completed or
\* failed
C3_StatusInStatuses ==
    \A j \in JobIds : Exists(j) => jobs[j].status \in Statuses

\* both jobs have run through a failure or a completion
C3_Witness ==
    /\ Exists("j1") /\ jobs["j1"].status = "failed"
    /\ Exists("j2") /\ jobs["j2"].status = "completed"

\* ------------------------------------------------------------------ C4
\* C4: retry_count never exceeds max_retries
C4_RetryCountBounded ==
    \A j \in JobIds : Exists(j) => jobs[j].retry_count <= jobs[j].max_retries

\* should_retry has refused a retry of a job whose budget is used up, on the
\* transient-error path of one job and on the timeout path of the other
C4_Witness ==
    /\ Exists("j1") /\ jobs["j1"].retry_count = jobs["j1"].max_retries
    /\ pc["j1"] = "mark_failed" /\ err["j1"].kind = "transient"
    /\ Exists("j2") /\ jobs["j2"].retry_count = jobs["j2"].max_retries
    /\ pc["j2"] = "t_mark_failed"

\* ------------------------------------------------------------------ C5
\* C5: when the n-th re-dispatch of a job starts, its retry_count is n
C5_OneIncrementPerRetry ==
    \A j \in JobIds :
        (pc[j] = "get_job" /\ Exists(j) /\ attempts[j] < MaxAttempts)
            => jobs[j].retry_count = attempts[j] - 1

\* ------------------------------------------------------------------ C6
AttemptAtMax(j) ==
    /\ attempts[j] >= 1
    /\ Exists(j)
    /\ attempt_rc[j] = jobs[j].max_retries

\* C6: an attempt that started with retry_count = max_retries and timed out
\* or raised a transient error is not retried and leaves the job failed with
\* error type timeout, or transient when it was not cut by the timeout
C6_LastAttemptFails ==
    \A j \in JobIds :
        (AttemptAtMax(j) /\ (timedout[j] \/ err[j].kind = "transient")) =>
            /\ pc[j] \notin RetryPcs \cup {"queued"}
            /\ pc[j] = "done" =>
                  /\ jobs[j].status = "failed"
                  /\ jobs[j].error_type =
                        IF timedout[j] THEN "timeout" ELSE "transient"

\* one job has ended its last attempt on a transient error, the other on a
\* timeout
C6_Witness ==
    /\ AttemptAtMax("j1") /\ pc["j1"] = "done"
    /\ err["j1"].kind = "transient" /\ ~timedout["j1"]
    /\ jobs["j1"].status = "failed"
    /\ AttemptAtMax("j2") /\ pc["j2"] = "done" /\ timedout["j2"]
    /\ jobs["j2"].status = "failed"

\* ------------------------------------------------------------------ C7
ValidationFailure(j) == err[j].kind \in {"ValueError", "validation"}

\* C7: a job whose attempt raised a validation failure keeps its retry_count,
\* is not re-dispatched and ends failed
C7_ValidationNeverRetried ==
    \A j \in JobIds :
        (ValidationFailure(j) /\ Exists(j)) =>
            /\ jobs[j].retry_count = attempt_rc[j]
            /\ pc[j] \notin RetryPcs \cup {"queued"}
            /\ pc[j] = "done" => jobs[j].status = "failed"

\* ------------------------------------------------------------------ C8
\* C8: trip_id is set if and only if the status is completed
C8_TripIdIffCompleted ==
    \A j \in JobIds :
        Exists(j) => (jobs[j].trip_id # NoTime <=> jobs[j].status = "completed")

\* ------------------------------------------------------------------ C9
\* C9: error_type and error_message are both set on a failed job and both
\* null on a pending, processing or completed job
C9_ErrorIffFailed ==
    \A j \in JobIds :
        Exists(j) =>
            IF jobs[j].status = "failed"
            THEN jobs[j].error_type # Null /\ jobs[j].error_message # Null
            ELSE jobs[j].error_type = Null /\ jobs[j].error_message = Null

\* a job that had been marked failed is pending again after a retry, next to
\* a failed job
C9_Witness ==
    /\ Exists("j1") /\ jobs["j1"].status = "pending"
    /\ jobs["j1"].retry_count >= 1 /\ err["j1"].kind = "api_error"
    /\ timedout["j1"]
    /\ Exists("j2") /\ jobs["j2"].status = "failed"
    /\ jobs["j2"].error_type = "validation"

\* ----------------------------------------------------------------- C10
\* C10: under fair scheduling every enqueued job eventually reaches status
\* completed or failed
C10_EveryJobTerminates ==
    \A j \in JobIds : (pc[j] = "queued" /\ attempts[j] = 0) ~> Terminal(j)

\* a job has become terminal after using up its retries
C10_Witness ==
    \E j \in JobIds :
        /\ Terminal(j)
        /\ jobs[j].retry_count = jobs[j].max_retries
        /\ attempts[j] = jobs[j].max_retries + 1
        /\ pc[j] = "done"

\* ----------------------------------------------------------------- C11
\* C11: over its whole life a job has at most max_retries + 1 dispatch tasks
\* started, hence at most max_retries + 1 moves pending -> processing,
\* whatever mix of timeouts and transient errors its attempts hit
C11_DispatchesBounded ==
    \A j \in JobIds : attempts[j] <= max_retries_default + 1

\* both jobs are processing in their last allowed dispatch, one after two
\* retries and one after a doubled increment
C11_Witness ==
    /\ Exists("j1") /\ Exists("j2")
    /\ attempts["j1"] = max_retries_default + 1
    /\ pc["j1"] = "workflow" /\ jobs["j1"].status = "processing"
    /\ attempts["j2"] = max_retries_default
    /\ jobs["j2"].retry_count = max_retries_default
    /\ pc["j2"] = "workflow" /\ jobs["j2"].status = "processing"

\* ----------------------------------------------------------------- C18
\* the first dispatch task of the job has not executed mark_processing yet
BeforeFirstMarkProcessing(j) ==
    \/ pc[j] = "queued" /\ attempts[j] = 0
    \/ pc[j] \in {"get_job", "mark_processing"} /\ attempts[j] = 1

\* C18: from enqueue until the first dispatch task executes mark_processing
\* the stored job has status pending and retry_count 0
C18_PendingUntilFirstDispatch ==
    \A j \in JobIds :
        BeforeFirstMarkProcessing(j) =>
            /\ Exists(j)
            /\ jobs[j].status = "pending"
            /\ jobs[j].retry_count = 0

\* a job just enqueued next to a job whose first task is about to call
\* mark_processing, after the clock has advanced
C18_Witness ==
    /\ pc["j1"] = "mark_processing" /\ attempts["j1"] = 1
    /\ jobs["j1"].status = "pending"
    /\ pc["j2"] = "queued" /\ attempts["j2"] = 0
    /\ jobs["j2"].status = "pending"
    /\ now > 0

\* ----------------------------------------------------------------- C19
\* C19: the delay of a backoff sleep, on the transient-error path and on the
\* timeout path, is 2^k seconds for k the retry_count of the job after the
\* increment of that retry
C19_BackoffIsPowerOfTwo ==
    \A j \in JobIds :
        pc[j] \in {"backoff", "t_backoff"} =>
            /\ Exists(j)
            /\ jobs[j].retry_count >= 1
            /\ backoff_seconds[j] = 2 ^ jobs[j].retry_count

\* one job sleeps 2 s after its first increment on the transient-error path,
\* the other 4 s after its second increment on the timeout path
C19_Witness ==
    /\ pc["j1"] = "backoff" /\ jobs["j1"].retry_count = 1
    /\ backoff_seconds["j1"] = 2
    /\ pc["j2"] = "t_backoff" /\ jobs["j2"].retry_count = 2
    /\ backoff_seconds["j2"] = 4

\* ------------------------------------------------- the store on its own
\* The store queries and the cleanup are checked on collections that no task
\* is writing: jobs is then a population of documents with ids 1, 2, ... in
\* insertion order, made with the operations of the store, and now is fixed.
OneDoc(created_at) == [i \in {1} |-> NewJob(created_at)]

PendingDoc(created_at) == OneDoc(created_at)[1]

ProcessingDoc(created_at, started_at) ==
    mark_processing(OneDoc(created_at), 1, started_at)[1]

CompletedDoc(created_at) ==
    mark_completed(mark_processing(OneDoc(created_at), 1, created_at),
                   1, 1, created_at)[1]

FailedDoc(created_at) ==
    mark_failed(mark_processing(OneDoc(created_at), 1, created_at),
                1, "error", "unknown", created_at)[1]

\* the kinds of documents of a population at time t: created or started just
\* before, or exactly at, the cutoff of the cleanup and of get_stuck_jobs
StoreKinds(t) ==
    LET cleanup_cutoff == t - job_max_age_hours * SecondsPerHour
        stuck_cutoff == t - trip_generation_timeout_seconds
    IN <<ProcessingDoc(cleanup_cutoff - 1, stuck_cutoff - 1),
         ProcessingDoc(cleanup_cutoff - 1, stuck_cutoff),
         PendingDoc(cleanup_cutoff - 1),
         CompletedDoc(cleanup_cutoff - 1),
         CompletedDoc(cleanup_cutoff),
         FailedDoc(cleanup_cutoff - 1),
         FailedDoc(t)>>

\* the number of documents of each kind; the first kind is the stuck one
\* (the second kind, processing and not stuck, also comes in numbers around
\* the threshold of the health report)
StoreCounts ==
    {[k \in 1..7 |-> IF k = 1 THEN n ELSE IF k = 2 THEN p ELSE c[k]] :
        n \in {0, 1, MaxStuck},
        p \in {0, 1} \cup {processing_threshold - 1, processing_threshold,
                           processing_threshold + 1},
        c \in [3..7 -> 0..MaxPerKind]}

RECURSIVE Populate(_, _, _)
Populate(kinds, c, k) ==
    IF k > Len(kinds) THEN <<>>
    ELSE [i \in 1..c[k] |-> kinds[k]] \o Populate(kinds, c, k + 1)

StoreNow == MaxTicks * TickSeconds

StoreInit ==
    /\ now = StoreNow
    /\ \E c \in StoreCounts : jobs = Populate(StoreKinds(StoreNow), c, 1)
    /\ pc = [j \in JobIds |-> "none"]
    /\ err = [j \in JobIds |-> NoErr]
    /\ attempts = [j \in JobIds |-> 0]
    /\ attempt_rc = [j \in JobIds |-> 0]
    /\ timedout = [j \in JobIds |-> FALSE]
    /\ backoff_seconds = [j \in JobIds |-> 0]
    /\ wf = [j \in JobIds |-> IdleRun(DefaultTripData)]
    /\ trips = {}
    /\ reply = NoReply
    /\ live = [j \in JobIds |-> 0]
    /\ warning = [j \in JobIds |-> NoWarning]
    /\ settings = DefaultSettings
    /\ sweeper = ServingApp
    /\ cache = EmptyCache

StoreUnchanged ==
    UNCHANGED <<pc, err, now, attempts, attempt_rc, timedout, backoff_seconds,
                wf, trips, live, warning, settings, sweeper, cache>>

\* a call of get_stuck_jobs
GetStuckJobs ==
    /\ reply' = [op |-> "get_stuck_jobs", ids |-> get_stuck_jobs(jobs, now)]
    /\ UNCHANGED jobs
    /\ StoreUnchanged

\* a call of get_job_stats
GetJobStats ==
    /\ reply' = get_job_stats(jobs, now)
    /\ UNCHANGED jobs
    /\ StoreUnchanged

\* a call of cleanup_old_jobs, which returns deleted_count
CleanupCall ==
    /\ jobs' = cleanup_old_jobs(jobs, now)
    /\ reply' = [op |-> "cleanup_old_jobs",
                 deleted_count |->
                    Cardinality({j \in DOMAIN jobs :
                                    jobs[j] # NoJob /\ jobs'[j] = NoJob})]
    /\ StoreUnchanged

\* GET /jobs/health: get_stuck_jobs, get_job_stats, then the report
GetJobsHealth ==
    /\ LET stuck_jobs == get_stuck_jobs(jobs, now)
           stats == get_job_stats(jobs, now)
       IN reply' = [op |-> "get_jobs_health",
                    status |-> IF is_healthy(Cardinality(stuck_jobs),
                                             stats.processing)
                               THEN "healthy" ELSE "degraded",
                    stuck_jobs_count |-> Cardinality(stuck_jobs),
                    processing_jobs_count |-> stats.processing]
    /\ UNCHANGED jobs
    /\ StoreUnchanged

StoreNext == GetStuckJobs \/ GetJobStats \/ CleanupCall \/ GetJobsHealth

StoreSpec == StoreInit /\ [][StoreNext]_vars

\* ----------------------------------------------------------------- C12
\* completed or failed, and created more than job_max_age_hours before t
Aged(doc, t) ==
    /\ doc.status \in {"completed", "failed"}
    /\ t - doc.created_at > job_max_age_hours * SecondsPerHour

\* C12: a call of cleanup_old_jobs removes exactly the completed and failed
\* jobs older than the max age and leaves every other record, pending and
\* processing ones of any age included, unchanged; no other store call
\* removes or changes a record
C12_CleanupExact ==
    [][\A j \in DOMAIN jobs :
          jobs'[j] = IF /\ reply'.op = "cleanup_old_jobs"
                        /\ Exists(j)
                        /\ Aged(jobs[j], now)
                     THEN NoJob ELSE jobs[j]]_vars

\* a cleanup has removed aged completed and failed jobs and has kept an aged
\* pending job, a stuck processing job and a completed job created exactly
\* max age ago
C12_Witness ==
    /\ reply.op = "cleanup_old_jobs" /\ reply.deleted_count >= 2
    /\ \E j \in DOMAIN jobs :
          /\ Exists(j) /\ jobs[j].status = "pending"
          /\ now - jobs[j].created_at > job_max_age_hours * SecondsPerHour
    /\ \E j \in DOMAIN jobs :
          /\ Exists(j) /\ jobs[j].status = "processing"
          /\ now - jobs[j].created_at > job_max_age_hours * SecondsPerHour
    /\ \E j \in DOMAIN jobs :
          /\ Exists(j) /\ jobs[j].status = "completed"
          /\ now - jobs[j].created_at = job_max_age_hours * SecondsPerHour

\* ----------------------------------------------------------------- C13
\* processing, with started_at more than the timeout window before t
IsStuck(doc, t) ==
    /\ doc.status = "processing"
    /\ doc.started_at # NoTime
    /\ t - doc.started_at > trip_generation_timeout_seconds

StuckIds == {j \in DOMAIN jobs : Exists(j) /\ IsStuck(jobs[j], now)}

\* C13: get_stuck_jobs returns exactly the jobs that are processing with
\* started_at older than the timeout window, whatever their number
C13_StuckJobsExact ==
    reply.op = "get_stuck_jobs" => reply.ids = StuckIds

\* ----------------------------------------------------------------- C17
JobsWithStatus(st) == {j \in DOMAIN jobs : Exists(j) /\ jobs[j].status = st}

\* C17: get_job_stats returns the number of jobs of each status, their sum
\* (the number of jobs) as total, and the number of stuck jobs as stuck
C17_StatsExact ==
    reply.op = "get_job_stats" =>
        /\ reply.pending = Cardinality(JobsWithStatus("pending"))
        /\ reply.processing = Cardinality(JobsWithStatus("processing"))
        /\ reply.completed = Cardinality(JobsWithStatus("completed"))
        /\ reply.failed = Cardinality(JobsWithStatus("failed"))
        /\ reply.total = Cardinality({j \in DOMAIN jobs : Exists(j)})
        /\ reply.stuck = Cardinality(StuckIds)

\* ------------------------------------------------ the generation workflow
\* generate_trip and generate_packing_lists step by step, for the jobs of
\* WfJobs: each await of a run is one position of wf[j].pc, and the dispatch
\* task of the job stays at "workflow" while the run lasts.

\* jobs whose workflow runs are followed in detail
WfJobs == {JobOrder[1]}

\* keyword classes of the messages the collaborators raise with
WfMessages == {{}, {TransientKw}}

\* trip_data of the jobs: the first n travelers, dates in ISO format or not
TripDatas ==
    {[travelers |-> SubSeq(TravelerOrder, 1, n), iso_dates |-> d] :
        n \in 0..Len(TravelerOrder), d \in BOOLEAN}

WorkflowInit ==
    /\ jobs = [j \in JobIds |-> NoJob]
    /\ pc = [j \in JobIds |-> "none"]
    /\ err = [j \in JobIds |-> NoErr]
    /\ now = 0
    /\ attempts = [j \in JobIds |-> 0]
    /\ attempt_rc = [j \in JobIds |-> 0]
    /\ timedout = [j \in JobIds |-> FALSE]
    /\ backoff_seconds = [j \in JobIds |-> 0]
    /\ \E td \in TripDatas :
          wf = [j \in JobIds |->
                  IdleRun(IF j \in WfJobs THEN td ELSE DefaultTripData)]
    /\ trips = {}
    /\ reply = NoReply
    /\ live = [j \in JobIds |-> 0]
    /\ warning = [j \in JobIds |-> NoWarning]
    /\ settings = DefaultSettings
    /\ sweeper = ServingApp
    /\ cache = EmptyCache

JobUnchanged ==
    UNCHANGED <<jobs, pc, err, now, attempts, attempt_rc, timedout,
                backoff_seconds, reply, live, settings, sweeper, cache>>

\* the weather step keeping the forecast variable unset when the fetch raises
weather_step_no_fallback(raised) == IF raised THEN "unset" ELSE "forecast"

\* step 1: weather_data is the forecast, or None when the fetch raises
weather_step(raised) == IF raised THEN Null ELSE "forecast"

\* the result loop putting each list in front of the earlier ones
append_in_front(packing_lists, result) == <<result>> \o packing_lists

\* packing_lists.append(result); the result of _generate_single_traveler_list
\* is PackingListForPerson(person_id=traveler.id, ...)
append(packing_lists, result) == Append(packing_lists, result)

\* the result loop taking every result for a packing list
packing_lists_of_all(travelers, tasks) == travelers

\* the result loop of generate_packing_lists: the results that are not
\* exceptions, in the order of the travelers; a list carries person_id
RECURSIVE packing_lists_of(_, _)
packing_lists_of(travelers, tasks) ==
    IF travelers = <<>> THEN <<>>
    ELSE LET n == Len(travelers)
             rest == packing_lists_of(SubSeq(travelers, 1, n - 1), tasks)
         IN IF tasks[n].st = "ok" THEN append(rest, travelers[n]) ELSE rest

\* generate_packing_lists going on with an empty result
all_failed_ignored(packing_lists) == FALSE

\* if not packing_lists: raise Exception("Failed to generate any ...")
all_failed(packing_lists) == packing_lists = <<>>

\* the keyword classes of "; ".join(errors)
joined_errors(tasks) ==
    UNION {tasks[i].msg : i \in {k \in DOMAIN tasks : tasks[k].st = "raised"}}

\* the exception of a failed metrics call taking the place of the original
raised_after_metric_masks(original, metric_exc) ==
    IF metric_exc = NoExc THEN original ELSE metric_exc

\* except Exception: pass around the failure metric, then raise err
raised_after_metric(original, metric_exc) == original

\* TripCreate(**job.trip_data) and the call of generate_trip, up to the
\* await of get_forecast
GenerateTrip(j) ==
    /\ pc[j] = "workflow"
    /\ wf[j].pc = "idle"
    /\ wf' = [wf EXCEPT ![j].pc = "weather"]
    /\ warning' = [warning EXCEPT ![j] = [st |-> "armed", finished |-> FALSE]]
    /\ UNCHANGED trips
    /\ JobUnchanged

\* get_forecast returns or raises; traveler preparation; the preamble of
\* generate_packing_lists (fromisoformat raises ValueError on a date that is
\* not ISO) and the creation of the per-traveler tasks for gather
GetForecast(j) ==
    /\ pc[j] = "workflow"
    /\ wf[j].pc = "weather"
    /\ \E raised \in BOOLEAN :
         wf' = [wf EXCEPT ![j] =
                  IF @.trip_data.iso_dates
                  THEN [@ EXCEPT !.forecast =
                                    IF raised THEN "raised" ELSE "returned",
                                 !.weather_data = weather_step(raised),
                                 !.pc = "gather"]
                  ELSE [@ EXCEPT !.forecast =
                                    IF raised THEN "raised" ELSE "returned",
                                 !.weather_data = weather_step(raised),
                                 !.llm = "raised",
                                 !.exc = [type |-> "ValueError", msg |-> {},
                                          origin |-> "generate_packing_lists"],
                                 !.pc = "metric_failed"]]
    /\ UNCHANGED <<trips, warning>>
    /\ JobUnchanged

\* one _generate_single_traveler_list task returns its list or raises
GenerateSingleTravelerList(j, i) ==
    /\ pc[j] = "workflow"
    /\ wf[j].pc = "gather"
    /\ i \in DOMAIN wf[j].tasks
    /\ wf[j].tasks[i].st = "running"
    /\ \/ wf' = [wf EXCEPT ![j].tasks[i] = [st |-> "ok", msg |-> {}]]
       \/ \E m \in WfMessages :
            wf' = [wf EXCEPT ![j].tasks[i] = [st |-> "raised", msg |-> m]]
    /\ UNCHANGED <<trips, warning>>
    /\ JobUnchanged

\* gather propagating the first exception while other tasks still run
gather_done_on_first_exception(tasks) ==
    \/ \A i \in DOMAIN tasks : tasks[i].st # "running"
    \/ \E i \in DOMAIN tasks : tasks[i].st = "raised"

\* await asyncio.gather(*tasks, return_exceptions=True) is over: every task
\* has returned or raised
gather_done(tasks) == \A i \in DOMAIN tasks : tasks[i].st # "running"

\* gather(return_exceptions=True) returns once every task is done; the result
\* loop; raise when nothing was generated (re-raised by except Exception of
\* generate_packing_lists, caught by except Exception of generate_trip)
Gather(j) ==
    /\ pc[j] = "workflow"
    /\ wf[j].pc = "gather"
    /\ gather_done(wf[j].tasks)
    /\ LET packing_lists ==
             packing_lists_of(wf[j].trip_data.travelers, wf[j].tasks)
       IN wf' = [wf EXCEPT ![j] =
                   IF all_failed(packing_lists)
                   THEN [@ EXCEPT !.llm = "raised",
                                  !.exc = [type |-> "Exception",
                                           msg |-> joined_errors(wf[j].tasks),
                                           origin |-> "generate_packing_lists"],
                                  !.pc = "metric_failed"]
                   ELSE [@ EXCEPT !.llm = "returned",
                                  !.packing_lists = packing_lists,
                                  !.pc = "insert"]]
    /\ UNCHANGED <<trips, warning>>
    /\ JobUnchanged

\* the Trip document of the run of job j; the id stands for str(ObjectId()),
\* job is history (the job whose attempt inserted it)
TripDoc(j) ==
    [id |-> attempts[j],
     job |-> j,
     weather_data |-> wf[j].weather_data,
     packing_lists |-> wf[j].packing_lists]

\* step 4: trips_collection.insert_one succeeds or raises
InsertTrip(j) ==
    /\ pc[j] = "workflow"
    /\ wf[j].pc = "insert"
    /\ \/ /\ trips' = trips \cup {TripDoc(j)}
          /\ wf' = [wf EXCEPT ![j].pc = "metric_success"]
       \/ /\ \E m \in WfMessages :
               wf' = [wf EXCEPT ![j].exc = [type |-> "Exception", msg |-> m,
                                            origin |-> "insert_one"],
                                ![j].pc = "metric_failed"]
          /\ UNCHANGED trips
    /\ UNCHANGED <<warning, settings, sweeper, cache>>
    /\ JobUnchanged

\* step 5: record_trip_generation_metric(status="success") inside the try of
\* generate_trip: it returns, or what it raises is caught by except Exception
RecordSuccessMetric(j) ==
    /\ pc[j] = "workflow"
    /\ wf[j].pc = "metric_success"
    /\ \/ wf' = [wf EXCEPT
                   ![j].metrics = Append(@, [status |-> "success",
                                             recorded |-> TRUE]),
                   ![j].pc = "returned"]
       \/ \E m \in WfMessages :
            wf' = [wf EXCEPT
                     ![j].metrics = Append(@, [status |-> "success",
                                               recorded |-> FALSE]),
                     ![j].exc = [type |-> "Exception", msg |-> m,
                                 origin |-> "record_success_metric"],
                     ![j].pc = "metric_failed"]
    /\ UNCHANGED <<trips, warning>>
    /\ JobUnchanged

\* except Exception as err: record_trip_generation_metric(status="failed")
\* in try/except pass, then raise err
RecordFailedMetric(j) ==
    /\ pc[j] = "workflow"
    /\ wf[j].pc = "metric_failed"
    /\ \/ wf' = [wf EXCEPT
                   ![j].metrics = Append(@, [status |-> "failed",
                                             recorded |-> TRUE]),
                   ![j].exc = raised_after_metric(@, NoExc),
                   ![j].pc = "raised"]
       \/ \E m \in WfMessages :
            wf' = [wf EXCEPT
                     ![j].metrics = Append(@, [status |-> "failed",
                                               recorded |-> FALSE]),
                     ![j].exc = raised_after_metric(@,
                                   [type |-> "Exception", msg |-> m,
                                    origin |-> "record_failed_metric"]),
                     ![j].pc = "raised"]
    /\ UNCHANGED <<trips, warning>>
    /\ JobUnchanged

\* generate_trip returns the trip: warning_task.cancel(), mark_completed next
GenerateTripReturns(j) ==
    /\ pc[j] = "workflow"
    /\ wf[j].pc = "returned"
    /\ pc' = [pc EXCEPT ![j] = "mark_completed"]
    /\ warning' = [warning EXCEPT ![j] = cancel(@)]
    /\ UNCHANGED <<jobs, err, now, attempts, attempt_rc, timedout,
                   backoff_seconds, wf, trips, reply, live, settings,
                   sweeper, cache>>

\* generate_trip raises: except ValueError, or except Exception with the
\* error classified on the spot
GenerateTripRaises(j) ==
    /\ pc[j] = "workflow"
    /\ wf[j].pc = "raised"
    /\ LET error_type == _classify_error(wf[j].exc.msg) IN
       IF wf[j].exc.type = "ValueError"
       THEN /\ err' = [err EXCEPT ![j] =
                         [kind |-> "ValueError", msg |-> "Validation error"]]
            /\ pc' = [pc EXCEPT ![j] = "validation_failed"]
       ELSE /\ err' = [err EXCEPT ![j] =
                         [kind |-> error_type, msg |-> "error"]]
            /\ pc' = [pc EXCEPT ![j] =
                        IF error_type = "transient" THEN "should_retry"
                        ELSE "mark_failed"]
    /\ warning' = [warning EXCEPT ![j] =
                       IF @.st = "armed" THEN [@ EXCEPT !.finished = TRUE]
                       ELSE @]
    /\ UNCHANGED <<jobs, now, attempts, attempt_rc, timedout,
                   backoff_seconds, wf, trips, reply, live, settings,
                   sweeper, cache>>

\* _log_slow_job_warning: the sleep of the threshold ends and the warning
\* is logged, whatever the dispatch task is doing by then
LogSlowJobWarning(j) ==
    /\ warning[j].st = "armed"
    /\ warning' = [warning EXCEPT ![j].st = "logged"]
    /\ UNCHANGED <<wf, trips>>
    /\ JobUnchanged

WorkflowStep(j) ==
    \/ GenerateTrip(j)
    \/ GetForecast(j)
    \/ \E i \in 1..Len(TravelerOrder) : GenerateSingleTravelerList(j, i)
    \/ Gather(j)
    \/ InsertTrip(j)
    \/ RecordSuccessMetric(j)
    \/ RecordFailedMetric(j)
    \/ GenerateTripReturns(j)
    \/ GenerateTripRaises(j)
    \/ LogSlowJobWarning(j)

\* the steps of the dispatch task around the workflow
DispatchStep(j) ==
    \/ StartTask(j)
    \/ GetJob(j)
    \/ MarkProcessing(j)
    \/ MarkCompleted(j)
    \/ MarkFailedValidation(j)
    \/ ShouldRetry(j)
    \/ IncrementRetry(j)
    \/ GetJobRetry(j)
    \/ Redispatch(j)
    \/ MarkFailed(j)
    \/ Return(j)
    \/ Timeout(j)
    \/ TimeoutShouldRetry(j)
    \/ TimeoutIncrementRetry(j)
    \/ TimeoutGetJob(j)
    \/ TimeoutRedispatch(j)
    \/ TimeoutMarkFailed(j)

WorkflowNext ==
    \/ \E j \in WfJobs : enqueue_trip_generation_job(j)
    \/ \E j \in WfJobs : DispatchStep(j)
    \/ \E j \in WfJobs : WorkflowStep(j)

WorkflowSpec == WorkflowInit /\ [][WorkflowNext]_vars

\* the run of job j is past the result loop of generate_packing_lists
GatherDone(j) == wf[j].pc \notin {"idle", "weather", "gather"}

\* the trip inserted by the current attempt of job j, if any
AttemptTrips(j) == {t \in trips : t.job = j /\ t.id = attempts[j]}

\* number of packing lists of the run of job j that carry traveler id tid
ListsOf(j, tid) ==
    Cardinality({k \in 1..Len(wf[j].packing_lists) :
                    wf[j].packing_lists[k] = tid})

\* ----------------------------------------------------------------- C14
\* C14: when at least one per-traveler generation succeeds and at least one
\* raises, generate_packing_lists returns without raising, with exactly one
\* packing list for every traveler whose generation succeeded and none for
\* the others
C14_PartialFailureReturnsSubset ==
    \A j \in WfJobs :
        LET tasks == wf[j].tasks
            travelers == wf[j].trip_data.travelers
        IN (/\ GatherDone(j)
            /\ \E i \in DOMAIN tasks : tasks[i].st = "ok"
            /\ \E i \in DOMAIN tasks : tasks[i].st = "raised")
           => /\ wf[j].llm = "returned"
              /\ \A i \in DOMAIN tasks :
                    ListsOf(j, travelers[i]) =
                        IF tasks[i].st = "ok" THEN 1 ELSE 0

\* of three travelers the second failed: the run has returned the lists of
\* the first and the third
C14_Witness ==
    /\ wf["j1"].pc = "returned"
    /\ wf["j1"].trip_data.travelers = TravelerOrder
    /\ wf["j1"].tasks[1].st = "ok"
    /\ wf["j1"].tasks[2].st = "raised"
    /\ wf["j1"].tasks[3].st = "ok"
    /\ wf["j1"].packing_lists = <<TravelerOrder[1], TravelerOrder[3]>>

\* ----------------------------------------------------------------- C15
\* every per-traveler generation of the run of job j has raised
AllRaised(j) ==
    /\ GatherDone(j)
    /\ wf[j].trip_data.travelers # <<>>
    /\ \A i \in DOMAIN wf[j].tasks : wf[j].tasks[i].st = "raised"

\* C15: when every per-traveler generation of an attempt raises,
\* generate_packing_lists raises an aggregate error, generate_trip raises it
\* on, the attempt inserts no Trip and does not mark the job completed
C15_AllFailedRaises ==
    \A j \in WfJobs :
        AllRaised(j) =>
            /\ wf[j].llm = "raised"
            /\ wf[j].exc.type = "Exception"
            /\ wf[j].exc.origin = "generate_packing_lists"
            /\ wf[j].exc.msg = joined_errors(wf[j].tasks)
            /\ wf[j].pc \in {"metric_failed", "raised"}
            /\ AttemptTrips(j) = {}
            /\ pc[j] # "mark_completed"
            /\ Exists(j) => jobs[j].status # "completed"

\* all three generations raised and the job has ended failed, without a
\* Trip
C15_Witness ==
    /\ AllRaised("j1")
    /\ Len(wf["j1"].trip_data.travelers) = 3
    /\ wf["j1"].pc = "raised"
    /\ pc["j1"] = "done"
    /\ Exists("j1") /\ jobs["j1"].status = "failed"
    /\ trips = {}

\* ----------------------------------------------------------------- C16
\* C16: a run whose weather fetch failed and whose later steps succeeded has
\* inserted a Trip with weather_data null, and its job is not failed and ends
\* completed
C16_WeatherFailureStillCompletes ==
    \A j \in WfJobs :
        (wf[j].forecast = "raised" /\ wf[j].pc = "returned") =>
            /\ \E t \in AttemptTrips(j) : t.weather_data = Null
            /\ pc[j] \in {"workflow", "mark_completed", "ret", "done"}
            /\ Exists(j) /\ jobs[j].status # "failed"
            /\ pc[j] = "done" => jobs[j].status = "completed"

\* the job has ended completed on a Trip without weather data
C16_Witness ==
    /\ wf["j1"].forecast = "raised" /\ wf["j1"].pc = "returned"
    /\ pc["j1"] = "done"
    /\ Exists("j1") /\ jobs["j1"].status = "completed"
    /\ \E t \in trips : t.weather_data = Null /\ t.id = jobs["j1"].trip_id

\* ----------------------------------------------------------------- C20
\* the metrics call for the success metric of the run of job j raised
SuccessMetricRaised(j) ==
    \E k \in 1..Len(wf[j].metrics) :
        wf[j].metrics[k] = [status |-> "success", recorded |-> FALSE]

\* C20: a run whose success metric could not be recorded does not raise, and
\* a run that raises never raises what the recording of the failure metric
\* raised
C20_MetricsFailuresSwallowed ==
    \A j \in WfJobs :
        /\ SuccessMetricRaised(j) => wf[j].pc # "raised"
        /\ wf[j].pc = "raised" => wf[j].exc.origin # "record_failed_metric"

\* ----------------------------------------------------------------- C21
\* the job has retry budget left and was not failed on validation
Retryable(j) ==
    /\ Exists(j)
    /\ jobs[j].error_type # "validation"
    /\ jobs[j].retry_count < jobs[j].max_retries

\* the dispatch task of job j takes a step
Moves(j) == pc'[j] # pc[j]

\* C21: after the hard timeout of an attempt the handler increments the retry
\* count, sleeps the backoff and re-dispatches the same job id as a new task
\* when the job is retryable, and marks it failed with kind timeout when it
\* is not; the attempt that timed out never marks the job completed
C21_TimeoutHandling ==
    [][\A j \in JobIds :
         /\ (~timedout[j] /\ timedout'[j]) => pc'[j] = "t_should_retry"
         /\ timedout'[j] => pc'[j] \notin InnerPcs
         /\ (timedout[j] /\ timedout'[j] /\ Status(jobs', j) = "completed")
               => Status(jobs, j) = "completed"
         /\ (pc[j] = "t_should_retry" /\ Moves(j))
               => pc'[j] = IF Retryable(j) THEN "t_increment_retry"
                           ELSE "t_mark_failed"
         /\ (pc[j] = "t_increment_retry" /\ Moves(j))
               => /\ pc'[j] = "t_get_job"
                  /\ Exists(j) =>
                        /\ jobs'[j].status = "pending"
                        /\ jobs'[j].retry_count = jobs[j].retry_count + 1
         /\ (pc[j] = "t_get_job" /\ Moves(j) /\ Exists(j))
               => /\ pc'[j] = "t_backoff"
                  /\ backoff_seconds'[j] = 2 ^ jobs[j].retry_count
         /\ (pc[j] = "t_backoff" /\ Moves(j))
               => /\ pc'[j] = "queued"
                  /\ live'[j] = 1
                  /\ jobs'[j] = jobs[j]
         /\ (pc[j] = "t_mark_failed" /\ Moves(j))
               => /\ pc'[j] = "done"
                  /\ Exists(j) =>
                        /\ jobs'[j].status = "failed"
                        /\ jobs'[j].error_type = "timeout"]_vars

\* one job re-dispatched by the timeout handler, the other marked failed by
\* it
C21_Witness ==
    /\ timedout["j1"] /\ pc["j1"] = "queued"
    /\ Exists("j1") /\ jobs["j1"].status = "pending"
    /\ jobs["j1"].retry_count = 1
    /\ timedout["j2"] /\ pc["j2"] = "done"
    /\ Exists("j2") /\ jobs["j2"].status = "failed"
    /\ jobs["j2"].error_type = "timeout"

\* ----------------------------------------------------------------- C22
NonRetryableKinds == {"validation", "api_error", "unknown"}

\* C22: a job whose attempt raised an exception classified validation,
\* api_error or unknown keeps its retry_count, is not re-dispatched and ends
\* failed with that kind
C22_NonTransientFailsAtOnce ==
    \A j \in JobIds :
        (err[j].kind \in NonRetryableKinds /\ Exists(j)) =>
            /\ jobs[j].retry_count = attempt_rc[j]
            /\ pc[j] \notin RetryPcs \cup {"queued"}
            /\ pc[j] = "done" =>
                  /\ jobs[j].status = "failed"
                  /\ jobs[j].error_type = err[j].kind

\* ----------------------------------------------------------------- C23
\* C23 as stated: an attempt that raised a transient error is never refused
\* the retry, whatever the retry_count of the job
C23_TransientAlwaysRetried ==
    \A j \in JobIds :
        (err[j].kind = "transient" /\ ~timedout[j] /\ Exists(j))
            => pc[j] \notin {"mark_failed", "ret", "done"}

\* C23, amended: an attempt that raised a transient error (and is not cut by
\* the timeout) is retried exactly when it started with retry_count below
\* max_retries; at max_retries it goes to mark_failed
C23_TransientRetriedWithinBudget ==
    \A j \in JobIds :
        (err[j].kind = "transient" /\ ~timedout[j] /\ Exists(j)) =>
            /\ pc[j] \in {"increment_retry", "get_job_retry", "backoff"}
                  => attempt_rc[j] < jobs[j].max_retries
            /\ pc[j] \in {"mark_failed", "ret", "done"}
                  => attempt_rc[j] >= jobs[j].max_retries

\* a transient error is refused the retry at max_retries for one job and is
\* granted it below max_retries for the other
C23_Witness ==
    /\ Exists("j1") /\ err["j1"].kind = "transient" /\ ~timedout["j1"]
    /\ pc["j1"] = "mark_failed"
    /\ jobs["j1"].retry_count = jobs["j1"].max_retries
    /\ Exists("j2") /\ err["j2"].kind = "transient" /\ ~timedout["j2"]
    /\ pc["j2"] = "backoff"
    /\ jobs["j2"].retry_count = 1

\* ----------------------------------------------------------------- C28
\* C28: at most one dispatch task of a job is alive at any time, also after
\* a timeout that interrupts the backoff of a transient-error retry
C28_OneExecutor ==
    \A j \in JobIds :
        /\ live[j] <= 1
        /\ live[j] = 1 <=> pc[j] \notin {"none", "done"}

\* the timeout cut the backoff of a transient-error retry and its handler
\* has re-dispatched the job: one task is alive
C28_Witness ==
    /\ pc["j1"] = "queued" /\ timedout["j1"]
    /\ err["j1"].kind = "transient"
    /\ Exists("j1") /\ jobs["j1"].retry_count = 2
    /\ live["j1"] = 1

\* ------------------------------------------------------------ pure calls
\* The decisions should_retry and _classify_error, applied to inputs drawn
\* from bounded sets.
MaxRetryCount == 3
MaxWords == 2

\* the job documents should_retry may find
RetryDocs ==
    {[NewJob(0) EXCEPT !.status = s, !.error_type = e,
                       !.retry_count = rc, !.max_retries = mx] :
        s \in Statuses, e \in ErrorTypes \cup {Null},
        rc \in 0..MaxRetryCount, mx \in 0..MaxRetryCount}

\* the keywords of _classify_error
TransientWords == {"timeout", "connection", "network", "temporary"}
ApiWords == {"api", "rate limit", "quota"}
ValidationWords == {"validation", "invalid", "required"}
KeywordsOf(class) ==
    IF class = TransientKw THEN TransientWords
    ELSE IF class = ApiKw THEN ApiWords
    ELSE ValidationWords

\* an exception text is a sequence of fragments, each in lower or upper case;
\* "rapid" is a word that has the keyword "api" inside, "other" has none
Fragments ==
    TransientWords \cup ApiWords \cup ValidationWords \cup {"rapid", "other"}
Tokens == [text : Fragments, upper : BOOLEAN]
Texts == UNION {[1..n -> Tokens] : n \in 0..MaxWords}

\* str.lower() without effect
lower_identity(text) == text

\* str.lower()
lower(text) == [i \in DOMAIN text |-> [text[i] EXCEPT !.upper = FALSE]]

\* keyword in error_str: a case-sensitive substring test
contains(text, keyword) ==
    \E i \in DOMAIN text :
        /\ ~text[i].upper
        /\ \/ text[i].text = keyword
           \/ text[i].text = "rapid" /\ keyword = "api"

\* the keyword classes any(...) finds in str(error).lower()
keyword_classes(text) ==
    {class \in KeywordClasses :
        \E keyword \in KeywordsOf(class) : contains(lower(text), keyword)}

\* _classify_error on the text of an exception
classify_error(text) == _classify_error(keyword_classes(text))

\* the variables no pure call touches
CallFrame ==
    /\ now = 0
    /\ pc = [j \in JobIds |-> "none"]
    /\ attempts = [j \in JobIds |-> 0]
    /\ attempt_rc = [j \in JobIds |-> 0]
    /\ timedout = [j \in JobIds |-> FALSE]
    /\ backoff_seconds = [j \in JobIds |-> 0]
    /\ wf = [j \in JobIds |-> IdleRun(DefaultTripData)]
    /\ trips = {}
    /\ reply = NoReply
    /\ live = [j \in JobIds |-> 0]
    /\ warning = [j \in JobIds |-> NoWarning]
    /\ settings = DefaultSettings
    /\ sweeper = ServingApp
    /\ cache = EmptyCache

\* a store with one job document (or none) for should_retry to read
RetryInit ==
    /\ CallFrame
    /\ \E d \in RetryDocs \cup {NoJob} :
          jobs = [j \in JobIds |-> IF j = JobOrder[1] THEN d ELSE NoJob]
    /\ err = [j \in JobIds |-> NoErr]

\* a call of should_retry(job_id)
ShouldRetryCall(j) ==
    /\ reply' = [op |-> "should_retry", job |-> j,
                 result |-> should_retry(jobs, j)]
    /\ UNCHANGED jobs
    /\ StoreUnchanged

RetryNext == \E j \in JobIds : ShouldRetryCall(j)

RetrySpec == RetryInit /\ [][RetryNext]_vars

\* an exception with some text caught by the attempt of the first job
ClassifyInit ==
    /\ CallFrame
    /\ jobs = [j \in JobIds |-> NoJob]
    /\ \E text \in Texts :
          err = [j \in JobIds |-> IF j = JobOrder[1]
                                  THEN [kind |-> "unclassified", msg |-> text]
                                  ELSE NoErr]

\* a call of _classify_error(e) on the exception of job j
ClassifyErrorCall(j) ==
    /\ err[j].kind = "unclassified"
    /\ reply' = [op |-> "_classify_error", text |-> err[j].msg,
                 result |-> classify_error(err[j].msg)]
    /\ UNCHANGED jobs
    /\ StoreUnchanged

ClassifyNext == \E j \in JobIds : ClassifyErrorCall(j)

ClassifySpec == ClassifyInit /\ [][ClassifyNext]_vars

\* ----------------------------------------------------------------- C24
\* C24: should_retry of an existing job answers false when the error kind of
\* the job is validation, false when retry_count >= max_retries and true in
\* every other case, and leaves the job record as it was
C24_ShouldRetry ==
    [][reply'.op = "should_retry" =>
          /\ jobs' = jobs
          /\ jobs[reply'.job] # NoJob =>
                LET job == jobs[reply'.job] IN
                    /\ job.error_type = "validation" => ~reply'.result
                    /\ job.retry_count >= job.max_retries => ~reply'.result
                    /\ (/\ job.error_type # "validation"
                        /\ job.retry_count < job.max_retries)
                          => reply'.result]_vars

\* should_retry has answered true for a job failed on a transient error with
\* budget left
C24_Witness ==
    /\ reply.op = "should_retry"
    /\ Exists(reply.job)
    /\ jobs[reply.job].error_type = "transient"
    /\ jobs[reply.job].retry_count + 1 = jobs[reply.job].max_retries
    /\ reply.result

\* ----------------------------------------------------------------- C25
\* the text has one of the keywords inside, whatever the case of its letters
HasAny(text, keywords) ==
    \E i \in DOMAIN text :
        \/ text[i].text \in keywords
        \/ text[i].text = "rapid" /\ "api" \in keywords

\* C25: _classify_error depends on the lower-cased message only and applies
\* the precedence transient > api_error > validation > unknown
C25_ClassifyPrecedence ==
    reply.op = "_classify_error" =>
        reply.result =
            IF HasAny(reply.text, TransientWords) THEN "transient"
            ELSE IF HasAny(reply.text, ApiWords) THEN "api_error"
            ELSE IF HasAny(reply.text, ValidationWords) THEN "validation"
            ELSE "unknown"

\* an upper-case transient keyword next to a validation keyword was
\* classified transient
C25_Witness ==
    /\ reply.op = "_classify_error"
    /\ reply.text = <<[text |-> "invalid", upper |-> FALSE],
                      [text |-> "timeout", upper |-> TRUE]>>
    /\ reply.result = "transient"

\* ----------------------------------------------------------------- C26
\* C26: generate_packing_lists leaves the gather (returning or raising) only
\* when every per-traveler task of the call has returned or raised, and the
\* failure of one task leaves every other task of the call as it was
C26_AllCompleteBarrier ==
    [][\A j \in WfJobs :
         /\ (/\ wf[j].pc = "gather"
             /\ wf'[j].pc # "gather"
             /\ wf'[j].llm # "none")
               => \A i \in DOMAIN wf[j].tasks :
                     wf[j].tasks[i].st \in {"ok", "raised"}
         /\ \A i \in DOMAIN wf[j].tasks :
               (/\ wf'[j].pc = "gather"
                /\ wf[j].tasks[i].st = "running"
                /\ wf'[j].tasks[i].st = "raised")
                 => \A k \in DOMAIN wf[j].tasks \ {i} :
                       wf'[j].tasks[k] = wf[j].tasks[k]]_vars

\* a call over three travelers has returned although the first task raised:
\* the two others ran to the end
C26_Witness ==
    \E j \in WfJobs :
        /\ wf[j].llm = "returned"
        /\ Len(wf[j].trip_data.travelers) = 3
        /\ wf[j].tasks[1].st = "raised"
        /\ wf[j].tasks[2].st = "ok"
        /\ wf[j].tasks[3].st = "ok"

\* ----------------------------------------------------------------- C27
\* C27: when the workflow of an attempt finishes before the warning
\* threshold, by returning or by raising, the slow-job warning of that
\* attempt is never logged
C27_WarningCancelledOnFinish ==
    \A j \in WfJobs : ~(warning[j].finished /\ warning[j].st = "logged")

\* ----------------------------------------------------------------- C29
\* the Trip documents inserted by the attempts of job j
TripsOf(j) == {t \in trips : t.job = j}

\* C29: over all its attempts a job has at most one Trip document inserted
C29_AtMostOneTrip ==
    \A j \in WfJobs : Cardinality(TripsOf(j)) <= 1

\* ----------------------------------------------------------------- C30
\* C30: the health report is degraded exactly when there is a stuck job or
\* more than 10 jobs are processing; with no stuck job and exactly 10
\* processing jobs it is healthy
C30_HealthThreshold ==
    reply.op = "get_jobs_health" =>
        (reply.status = "degraded"
            <=> \/ StuckIds # {}
                \/ Cardinality(JobsWithStatus("processing")) > 10)

\* ------------------------------------------- the lifespan and the sweeper
\* The application lifespan (main.py) and cleanup_old_jobs_task step by step,
\* over a store of two documents.  The field errors counts the exceptions
\* logged by the loop and saturates at MaxErrors.
MaxErrors == 2

\* CancelledError derives from Exception (asyncio before Python 3.8)
is_Exception_py37(exc) == TRUE

\* isinstance(exc, Exception): asyncio.CancelledError derives from
\* BaseException only
is_Exception(exc) == exc # "CancelledError"

\* an except block that logs and raises again
handler_reraises(exc) == "raise"

\* except Exception as err: logger.error(...): the block falls through to
\* the next turn of while True
handler(exc) == "continue"

\* what the await of the sweeper task gives to lifespan: except
\* asyncio.CancelledError: pass, and anything else propagates
awaited(task, raised) ==
    IF task = "cancelled" THEN "closing"
    ELSE IF raised = "none" THEN "closing" ELSE "failed"

\* the documents the sweeper may find: none, removable, or to keep
SweeperDocs ==
    {NoJob,
     CompletedDoc(StoreNow - job_max_age_hours * SecondsPerHour - 1),
     FailedDoc(StoreNow - job_max_age_hours * SecondsPerHour - 1),
     FailedDoc(StoreNow),
     PendingDoc(StoreNow - job_max_age_hours * SecondsPerHour - 1)}

SweeperInit ==
    /\ now = StoreNow
    /\ jobs \in [JobIds -> SweeperDocs]
    /\ pc = [j \in JobIds |-> "none"]
    /\ err = [j \in JobIds |-> NoErr]
    /\ attempts = [j \in JobIds |-> 0]
    /\ attempt_rc = [j \in JobIds |-> 0]
    /\ timedout = [j \in JobIds |-> FALSE]
    /\ backoff_seconds = [j \in JobIds |-> 0]
    /\ wf = [j \in JobIds |-> IdleRun(DefaultTripData)]
    /\ trips = {}
    /\ reply = NoReply
    /\ live = [j \in JobIds |-> 0]
    /\ warning = [j \in JobIds |-> NoWarning]
    /\ settings = DefaultSettings
    /\ cache = EmptyCache
    /\ sweeper = [lifespan |-> "startup", db |-> "none", task |-> "none",
                  cancel_requested |-> FALSE, errors |-> 0, raised |-> "none"]

SweeperFrame ==
    UNCHANGED <<pc, err, now, attempts, attempt_rc, timedout, backoff_seconds,
                wf, trips, reply, live, warning, settings, cache>>

\* lifespan up to yield: connect_db, create_task(cleanup_old_jobs_task())
Startup ==
    /\ sweeper.lifespan = "startup"
    /\ sweeper' = [sweeper EXCEPT !.lifespan = "serving", !.db = "connected",
                                  !.task = "created"]
    /\ UNCHANGED jobs
    /\ SweeperFrame

\* lifespan after yield: cleanup_task.cancel(), then await cleanup_task
Shutdown ==
    /\ sweeper.lifespan = "serving"
    /\ sweeper' = [sweeper EXCEPT !.lifespan = "awaiting",
                                  !.cancel_requested = TRUE]
    /\ UNCHANGED jobs
    /\ SweeperFrame

\* await cleanup_task is over: the task has ended
AwaitCleanupTask ==
    /\ sweeper.lifespan = "awaiting"
    /\ sweeper.task \in {"cancelled", "ended"}
    /\ sweeper' = [sweeper EXCEPT
                     !.lifespan = awaited(sweeper.task, sweeper.raised)]
    /\ UNCHANGED jobs
    /\ SweeperFrame

\* await Database.close_db()
CloseDb ==
    /\ sweeper.lifespan = "closing"
    /\ sweeper' = [sweeper EXCEPT !.lifespan = "closed", !.db = "closed"]
    /\ UNCHANGED jobs
    /\ SweeperFrame

\* the task runs to its first await, asyncio.sleep(interval)
SweeperStart ==
    /\ sweeper.task = "created"
    /\ ~sweeper.cancel_requested
    /\ sweeper' = [sweeper EXCEPT !.task = "sleep"]
    /\ UNCHANGED jobs
    /\ SweeperFrame

\* the sleep is over: cleanup_old_jobs() is called and awaited
SleepEnds ==
    /\ sweeper.task = "sleep"
    /\ ~sweeper.cancel_requested
    /\ sweeper' = [sweeper EXCEPT !.task = "cleanup"]
    /\ UNCHANGED jobs
    /\ SweeperFrame

\* cleanup_old_jobs() returns deleted_count; next turn of the loop
CleanupReturns ==
    /\ sweeper.task = "cleanup"
    /\ ~sweeper.cancel_requested
    /\ jobs' = cleanup_old_jobs(jobs, now)
    /\ sweeper' = [sweeper EXCEPT !.task = "sleep"]
    /\ SweeperFrame

\* an exception exc arrives at the await the task is in: the except clause
\* of the loop takes it and the loop goes on, or the task ends with it
raise_in_task(sw, exc) ==
    IF is_Exception(exc) /\ handler(exc) = "continue"
    THEN [sw EXCEPT !.task = "sleep", !.cancel_requested = FALSE,
                    !.errors = IF @ < MaxErrors THEN @ + 1 ELSE @]
    ELSE [sw EXCEPT !.task = IF exc = "CancelledError" THEN "cancelled"
                             ELSE "ended",
                    !.cancel_requested = FALSE,
                    !.raised = exc]

\* cleanup_old_jobs() raises (the delete_many fails)
CleanupRaises ==
    /\ sweeper.task = "cleanup"
    /\ ~sweeper.cancel_requested
    /\ sweeper' = raise_in_task(sweeper, "PyMongoError")
    /\ UNCHANGED jobs
    /\ SweeperFrame

\* the cancellation reaches the task: a task that never ran is cancelled as
\* it is; otherwise CancelledError is raised at the await the task is in (the
\* delete_many of a cleanup in flight may have taken effect or not)
DeliverCancel ==
    /\ sweeper.cancel_requested
    /\ sweeper.task \in {"created", "sleep", "cleanup"}
    /\ sweeper' = IF sweeper.task = "created"
                  THEN [sweeper EXCEPT !.task = "cancelled",
                                       !.cancel_requested = FALSE,
                                       !.raised = "CancelledError"]
                  ELSE raise_in_task(sweeper, "CancelledError")
    /\ \/ UNCHANGED jobs
       \/ /\ sweeper.task = "cleanup"
          /\ jobs' = cleanup_old_jobs(jobs, now)
    /\ SweeperFrame

SweeperTaskStep ==
    \/ SweeperStart
    \/ SleepEnds
    \/ CleanupReturns
    \/ CleanupRaises
    \/ DeliverCancel

LifespanStep == Startup \/ AwaitCleanupTask \/ CloseDb

SweeperNext == SweeperTaskStep \/ LifespanStep \/ Shutdown

SweeperSpec == SweeperInit /\ [][SweeperNext]_vars

\* the event loop runs every task that can take a step; the shutdown itself
\* is up to the operator
FairSweeperSpec ==
    /\ SweeperSpec
    /\ WF_vars(SweeperTaskStep)
    /\ WF_vars(LifespanStep)

\* ----------------------------------------------------------------- C31
\* C31: an exception raised by cleanup_old_jobs inside an iteration never
\* ends the sweeper loop: the task goes back to the sleep of the next turn,
\* and the task ends only by the cancellation of the shutdown
C31_SweeperSurvivesErrors ==
    [][/\ (/\ sweeper.task = "cleanup"
           /\ sweeper'.task # "cleanup"
           /\ ~sweeper.cancel_requested)
             => sweeper'.task = "sleep"
       /\ sweeper'.task \in {"ended", "cancelled"}
             => sweeper'.lifespan \notin {"startup", "serving"}]_vars

\* after two logged exceptions a later iteration is again at the call of
\* cleanup_old_jobs
C31_Witness ==
    /\ sweeper.errors = 2
    /\ sweeper.task = "cleanup"
    /\ sweeper.lifespan = "serving"

\* ----------------------------------------------------------------- C32
\* C32: once the shutdown has cancelled the sweeper task, the task ends by
\* the cancellation and lifespan goes on to close the database, without an
\* error
C32_ShutdownCompletes ==
    (sweeper.lifespan = "awaiting")
        ~> (/\ sweeper.lifespan = "closed"
            /\ sweeper.db = "closed"
            /\ sweeper.task = "cancelled")

\* the database is closed after a shutdown that cancelled a cleanup in
\* flight, in a run where the loop had logged an exception before
C32_Witness ==
    /\ sweeper.lifespan = "closed"
    /\ sweeper.db = "closed"
    /\ sweeper.task = "cancelled"
    /\ sweeper.errors >= 1

\* ------------------------------------------- dispatch of an unknown job id
\* The pipeline started with process_trip_generation_job_with_timeout called
\* for the first job id while the store has no document of that id; the
\* second job id goes through enqueue as usual.
OrphanInit ==
    /\ jobs = [j \in JobIds |-> NoJob]
    /\ pc = [j \in JobIds |-> IF j = JobOrder[1] THEN "queued" ELSE "none"]
    /\ err = [j \in JobIds |-> NoErr]
    /\ now = 0
    /\ attempts = [j \in JobIds |-> 0]
    /\ attempt_rc = [j \in JobIds |-> 0]
    /\ timedout = [j \in JobIds |-> FALSE]
    /\ backoff_seconds = [j \in JobIds |-> 0]
    /\ wf = [j \in JobIds |-> IdleRun(DefaultTripData)]
    /\ trips = {}
    /\ reply = NoReply
    /\ live = [j \in JobIds |-> IF j = JobOrder[1] THEN 1 ELSE 0]
    /\ warning = [j \in JobIds |-> NoWarning]
    /\ settings = DefaultSettings
    /\ sweeper = ServingApp
    /\ cache = EmptyCache

OrphanSpec == OrphanInit /\ [][Next]_vars

\* ----------------------------------------------------------------- C33
\* C33: a job record disappears only in a step of the sweeper (no dispatch
\* task moves, and the record was terminal and older than the max age); a
\* record appears only when enqueue creates it, never for an id whose task
\* is already under way; a step of a task whose job id has no record leaves
\* the store as it is
C33_NoResurrection ==
    [][\A j \in JobIds :
         /\ (jobs[j] # NoJob /\ jobs'[j] = NoJob)
               => /\ pc' = pc
                  /\ Aged(jobs[j], now)
         /\ (jobs[j] = NoJob /\ jobs'[j] # NoJob)
               => /\ pc[j] = "none"
                  /\ pc'[j] = "queued"
                  /\ jobs'[j] = NewJob(now)
         /\ (jobs[j] = NoJob /\ pc[j] # "none" /\ pc'[j] # pc[j])
               => jobs' = jobs]_vars

\* the dispatch for the id without record has ended, and the record of the
\* other job was removed while its timeout handler was still running
C33_Witness ==
    /\ jobs["j1"] = NoJob /\ pc["j1"] = "done" /\ attempts["j1"] = 1
    /\ jobs["j2"] = NoJob /\ pc["j2"] = "t_mark_failed" /\ timedout["j2"]

\* ----------------------------------------------------------------- C36
\* the store with the record of job j alone
Alone(j) == [k \in JobIds |-> IF k = j THEN jobs[j] ELSE NoJob]

\* what the store calls of the task of job j make of its record when no
\* other record is there
OwnWrites(j) ==
    {jobs[j],
     mark_processing(Alone(j), j, now)[j],
     mark_completed(Alone(j), j, attempts[j], now)[j],
     increment_retry(Alone(j), j, now)[j],
     mark_failed(Alone(j), j, err[j].msg, err[j].kind, now)[j],
     mark_failed(Alone(j), j, err[j].msg, "validation", now)[j],
     mark_failed(Alone(j), j, "Job timed out", "timeout", now)[j]}

\* C36: a step of the dispatch task, timeout handler or retry of job a
\* leaves the record and the task of every other job b as they were, and
\* what it writes to, and decides from, the record of a is what it would be
\* with the record of a alone in the store
C36_JobsIndependent ==
    [][\A a \in JobIds :
         (pc'[a] # pc[a] /\ pc[a] # "none") =>
            /\ \A b \in JobIds \ {a} :
                  /\ jobs'[b] = jobs[b]
                  /\ pc'[b] = pc[b]
            /\ jobs'[a] \in OwnWrites(a)
            /\ pc[a] = "should_retry" =>
                  pc'[a] \in {"t_should_retry",
                              IF should_retry(Alone(a), a)
                              THEN "increment_retry" ELSE "mark_failed"}]_vars

\* one job completed while the other was retried twice and failed
C36_Witness ==
    /\ Exists("j1") /\ jobs["j1"].status = "completed"
    /\ Exists("j2") /\ jobs["j2"].status = "failed"
    /\ jobs["j2"].retry_count = 2
    /\ attempts["j1"] = 1 /\ attempts["j2"] = 3

\* ----------------------------------------------------------------- C37
\* C37: a pending job has started_at null and a processing job has
\* started_at set; a job whose task waits in the retry backoff does not
\* match the query of get_stuck_jobs
C37_StartedAtFollowsStatus ==
    \A j \in JobIds :
        Exists(j) =>
            /\ jobs[j].status = "pending" => jobs[j].started_at = NoTime
            /\ jobs[j].status = "processing" => jobs[j].started_at # NoTime
            /\ pc[j] \in {"backoff", "t_backoff"} =>
                  ~stuck_query(jobs[j],
                               now - trip_generation_timeout_seconds)

\* a job is in the backoff of a retry long after its first attempt started,
\* while the other job is processing since before the timeout window
C37_Witness ==
    /\ Exists("j1") /\ pc["j1"] = "backoff"
    /\ jobs["j1"].status = "pending" /\ jobs["j1"].retry_count = 1
    /\ jobs["j1"].created_at = 0 /\ now = TickSeconds
    /\ Exists("j2") /\ jobs["j2"].status = "processing"
    /\ jobs["j2"].started_at = 0

\* -------------------------------------------- the configured retry budget
\* The pipeline of one job under every value of the setting job_max_retries
\* (read from the environment when the process starts).
SettingsInit ==
    /\ jobs = [j \in JobIds |-> NoJob]
    /\ pc = [j \in JobIds |-> "none"]
    /\ err = [j \in JobIds |-> NoErr]
    /\ now = 0
    /\ attempts = [j \in JobIds |-> 0]
    /\ attempt_rc = [j \in JobIds |-> 0]
    /\ timedout = [j \in JobIds |-> FALSE]
    /\ backoff_seconds = [j \in JobIds |-> 0]
    /\ wf = [j \in JobIds |-> IdleRun(DefaultTripData)]
    /\ trips = {}
    /\ reply = NoReply
    /\ live = [j \in JobIds |-> 0]
    /\ warning = [j \in JobIds |-> NoWarning]
    /\ settings \in [job_max_retries : 0..MaxRetryCount]
    /\ sweeper = ServingApp
    /\ cache = EmptyCache

SettingsNext ==
    \/ enqueue_trip_generation_job(JobOrder[1])
    \/ TaskStep(JobOrder[1])
    \/ CleanupOldJobs
    \/ Tick

SettingsSpec == SettingsInit /\ [][SettingsNext]_vars

\* ----------------------------------------------------------------- C35
\* C35: the max_retries of a job is the configured job_max_retries from its
\* creation on, and no step changes it
C35_BudgetIsConfigured ==
    \A j \in JobIds :
        Exists(j) => jobs[j].max_retries = settings.job_max_retries

\* ----------------------------------------------------------------- C34
\* the statuses of the metrics calls of the run of job j, in order
MetricStatuses(run) == [k \in 1..Len(run.metrics) |-> run.metrics[k].status]

\* C34: a run that fails in steps 1-4 makes exactly one metrics call, with
\* status failed, and then raises the exception of the step, whether that
\* call succeeded or not; a run that returns has made exactly one metrics
\* call, with status success, which was recorded
C34_OneMetricPerRun ==
    [][\A j \in WfJobs :
         /\ (wf[j].pc = "metric_failed" /\ wf'[j].pc = "raised")
               => /\ wf'[j].exc = wf[j].exc
                  /\ Len(wf'[j].metrics) = Len(wf[j].metrics) + 1
         /\ (/\ wf'[j].pc = "raised"
             /\ wf'[j].exc.origin \in {"generate_packing_lists", "insert_one"})
               => MetricStatuses(wf'[j]) = <<"failed">>
         /\ wf'[j].pc = "returned"
               => wf'[j].metrics = <<[status |-> "success",
                                      recorded |-> TRUE]>>]_vars

\* the insert of the Trip failed with a transient error, the failure metric
\* could not be recorded either, and the run raises the error of the insert
C34_Witness ==
    \E j \in WfJobs :
        /\ wf[j].pc = "raised"
        /\ wf[j].exc = [type |-> "Exception", msg |-> {TransientKw},
                        origin |-> "insert_one"]
        /\ wf[j].metrics = <<[status |-> "failed", recorded |-> FALSE]>>

\* ----------------------------------------------------------------- C38
\* the place of traveler id tid in the travelers of the run
PlaceOf(run, tid) ==
    CHOOSE i \in 1..Len(run.trip_data.travelers) :
        run.trip_data.travelers[i] = tid

\* C38: the lists returned by generate_packing_lists carry ids of input
\* travelers whose generation succeeded, in the relative order of those
\* travelers in the input, no id twice
C38_ListsInTravelerOrder ==
    \A j \in WfJobs :
        wf[j].llm = "returned" =>
            LET lists == wf[j].packing_lists
                travelers == wf[j].trip_data.travelers
            IN /\ \A k \in 1..Len(lists) :
                     /\ \E i \in 1..Len(travelers) : travelers[i] = lists[k]
                     /\ wf[j].tasks[PlaceOf(wf[j], lists[k])].st = "ok"
               /\ \A k, l \in 1..Len(lists) :
                     k < l => PlaceOf(wf[j], lists[k])
                                 < PlaceOf(wf[j], lists[l])

\* of three travelers the first failed: the lists of the second and the
\* third are returned in that order
C38_Witness ==
    \E j \in WfJobs :
        /\ wf[j].llm = "returned"
        /\ wf[j].trip_data.travelers = TravelerOrder
        /\ wf[j].tasks[1].st = "raised"
        /\ wf[j].packing_lists = <<TravelerOrder[2], TravelerOrder[3]>>

\* -------------------------------------------------------- the weather cache
\* WeatherService.get_forecast over its WeatherCache.  A location is a name
\* written in lower or upper case, with or without surrounding whitespace;
\* a date range is a number.  The cache starts empty or full.
MaxCalls == 2
MaxCacheTicks == 2
weather_cache_ttl_hours == 6
weather_cache_max_size == 1000

PlaceNames == {"paris", "lyon"}
Locations == [name : PlaceNames, upper : BOOLEAN, padded : BOOLEAN]
DateRanges == {1}

\* str.strip() without effect
strip_nothing(location) == location

\* str.strip()
strip(location) == [location EXCEPT !.padded = FALSE]

\* str.lower() of a location
lower_location(location) == [location EXCEPT !.upper = FALSE]

\* _normalize_key: f"{location.lower().strip()}:{start_date}:{end_date}"
_normalize_key(location, dates) ==
    [place |-> strip(lower_location(location)), dates |-> dates]

\* position of key in the dict, 0 when it is not in
IndexOf(entries, key) ==
    IF \E i \in 1..Len(entries) : entries[i].key = key
    THEN CHOOSE i \in 1..Len(entries) : entries[i].key = key
    ELSE 0

\* del self._cache[key]
del(entries, key) == SelectSeq(entries, LAMBDA e : e.key # key)

\* self._cache[key] = (datetime.now(), data): a key already in keeps its
\* place in the dict
put(entries, key, t, data) ==
    LET i == IndexOf(entries, key)
        entry == [key |-> key, time |-> t, data |-> data]
    IN IF i = 0 THEN Append(entries, entry)
       ELSE [entries EXCEPT ![i] = entry]

\* sorted(self._cache.items(), key=lambda x: x[1][0]): by timestamp, entries
\* of equal timestamp in the order of the dict
RECURSIVE sorted_by_time(_, _)
sorted_by_time(entries, times) ==
    IF times = {} THEN <<>>
    ELSE LET t == CHOOSE x \in times : \A y \in times : x <= y
         IN SelectSeq(entries, LAMBDA e : e.time = t)
               \o sorted_by_time(entries, times \ {t})

\* _cleanup_old_entries: the keys of the oldest 20% (at least one)
oldest_keys(entries) ==
    IF entries = <<>> THEN {}
    ELSE LET sorted_items ==
                 sorted_by_time(entries,
                                {entries[i].time : i \in 1..Len(entries)})
             num_to_remove ==
                 IF Len(sorted_items) \div 5 > 1
                 THEN Len(sorted_items) \div 5 ELSE 1
         IN {sorted_items[i].key : i \in 1..num_to_remove}

\* WeatherCache.set: if len(self._cache) >= self._max_size the oldest
\* entries go first
evicted_by_set(entries) ==
    IF Len(entries) >= weather_cache_max_size THEN oldest_keys(entries)
    ELSE {}

\* the expiry test of WeatherCache.get
expired(entry, t) ==
    t - entry.time > weather_cache_ttl_hours * SecondsPerHour

\* entries of n other date ranges of another place, stored at time 0
OtherPlace == [name |-> "elsewhere", upper |-> FALSE, padded |-> FALSE]
Fill(n) ==
    [i \in 1..n |-> [key |-> [place |-> OtherPlace, dates |-> i],
                     time |-> 0, data |-> 0]]

\* the keys of the locations the calls ask for
TrackedKeys ==
    {[place |-> [name |-> n, upper |-> FALSE, padded |-> FALSE],
      dates |-> d] : n \in PlaceNames, d \in DateRanges}

NotStored == [time |-> NoTime, data |-> 0]

\* the cache after a fetch of paris at time 0 followed by fetches of
\* max_size - 1 date ranges of another place
FullCache ==
    LET key == [place |-> [name |-> "paris", upper |-> FALSE,
                           padded |-> FALSE],
                dates |-> 1]
    IN [EmptyCache EXCEPT
          !.entries = <<[key |-> key, time |-> 0, data |-> 0]>>
                         \o Fill(weather_cache_max_size - 1),
          !.stored = [k \in TrackedKeys |->
                        IF k = key THEN [time |-> 0, data |-> 0]
                        ELSE NotStored]]

\* the cache right after start, or full
CachePopulations ==
    {[EmptyCache EXCEPT !.stored = [k \in TrackedKeys |-> NotStored]],
     FullCache}

WeatherInit ==
    /\ now = 0
    /\ cache \in CachePopulations
    /\ jobs = [j \in JobIds |-> NoJob]
    /\ pc = [j \in JobIds |-> "none"]
    /\ err = [j \in JobIds |-> NoErr]
    /\ attempts = [j \in JobIds |-> 0]
    /\ attempt_rc = [j \in JobIds |-> 0]
    /\ timedout = [j \in JobIds |-> FALSE]
    /\ backoff_seconds = [j \in JobIds |-> 0]
    /\ wf = [j \in JobIds |-> IdleRun(DefaultTripData)]
    /\ trips = {}
    /\ reply = NoReply
    /\ live = [j \in JobIds |-> 0]
    /\ warning = [j \in JobIds |-> NoWarning]
    /\ settings = DefaultSettings
    /\ sweeper = ServingApp

WeatherFrame ==
    UNCHANGED <<jobs, pc, err, attempts, attempt_rc, timedout,
                backoff_seconds, wf, trips, live, warning, settings, sweeper>>

\* get_forecast(location, start_date, end_date): the cache lookup, and on a
\* miss the request to the weather API, which returns (fetched) or fails
GetForecastCall(location, dates, fetched) ==
    /\ cache.calls < MaxCalls
    /\ LET key == _normalize_key(location, dates)
           i == IndexOf(cache.entries, key)
           hit == i # 0 /\ ~expired(cache.entries[i], now)
           looked == IF i # 0 /\ ~hit THEN del(cache.entries, key)
                     ELSE cache.entries
           data == cache.api_calls + 1
           removed == evicted_by_set(looked)
           kept == SelectSeq(looked, LAMBDA e : e.key \notin removed)
       IN IF hit
          THEN /\ cache' = [cache EXCEPT !.hits = @ + 1, !.calls = @ + 1]
               /\ reply' = [op |-> "get_forecast", location |-> location,
                            dates |-> dates, result |-> "returned",
                            data |-> cache.entries[i].data]
          ELSE IF fetched
          THEN /\ cache' = [cache EXCEPT
                              !.misses = @ + 1, !.calls = @ + 1,
                              !.api_calls = @ + 1,
                              !.entries = put(kept, key, now, data),
                              !.stored = [k \in DOMAIN @ |->
                                            IF k = key
                                            THEN [time |-> now, data |-> data]
                                            ELSE @[k]],
                              !.evicted = (@ \cup removed) \ {key}]
               /\ reply' = [op |-> "get_forecast", location |-> location,
                            dates |-> dates, result |-> "returned",
                            data |-> data]
          ELSE /\ cache' = [cache EXCEPT
                              !.misses = @ + 1, !.calls = @ + 1,
                              !.api_calls = @ + 1,
                              !.entries = looked]
               /\ reply' = [op |-> "get_forecast", location |-> location,
                            dates |-> dates, result |-> "raised", data |-> 0]
    /\ UNCHANGED now
    /\ WeatherFrame

\* the cache ages by one TTL
WeatherTick ==
    /\ now < MaxCacheTicks * weather_cache_ttl_hours * SecondsPerHour
    /\ now' = now + weather_cache_ttl_hours * SecondsPerHour
    /\ UNCHANGED <<cache, reply>>
    /\ WeatherFrame

WeatherNext ==
    \/ \E location \in Locations, dates \in DateRanges, fetched \in BOOLEAN :
          GetForecastCall(location, dates, fetched)
    \/ WeatherTick

WeatherSpec == WeatherInit /\ [][WeatherNext]_vars

\* ----------------------------------------------------------------- C39
\* the key of the claim: the location up to case and surrounding whitespace
ClaimKey(location, dates) ==
    [place |-> [name |-> location.name, upper |-> FALSE, padded |-> FALSE],
     dates |-> dates]

\* this step is a call of get_forecast
IsLookup == cache'.calls = cache.calls + 1

====
